---------------------------- MODULE Spec2Model ----------------------------
(***************************************************************************)
(* Connect 4 (src/Connect4.py): the board, the legality rules, the win     *)
(* detection, the positional heuristic, the depth-bounded minimax with     *)
(* alpha-beta pruning, the AI controller get_ai_move, and the handlers of  *)
(* the live game (click, delayed AI move, undo, new game, difficulty).     *)
(*                                                                         *)
(* A board is a function board[r][c], r \in 0..ROWS-1 with row 0 at the    *)
(* top, c \in 0..COLS-1, as the list of lists of the source.               *)
(*                                                                         *)
(* Python integers are unbounded and the terminal scores of minimax        *)
(* (10^14 and -10^13) exceed the checker's 32-bit integers.  A search      *)
(* score is therefore the pair <<hi, lo>> that denotes hi * 10^7 + lo,     *)
(* with |lo| < 10^7, compared lexicographically; math.inf is the pair      *)
(* PosInf, above every score the program computes, -math.inf is NegInf.    *)
(***************************************************************************)
EXTENDS Integers, Sequences, FiniteSets, TLC

\* ------------------------------------------------------------ constants
ROWS == 6
COLS == 7
EMPTY == 0
PLAYER_PIECE == 1
AI_PIECE == 2
WINDOW_LENGTH == 4

\* Python's None, where a column or a row is Optional[int]: an integer that no
\* column, row or pixel of the model takes
None == -100

RowIdx == 0..(ROWS - 1)
ColIdx == 0..(COLS - 1)
Pieces == {PLAYER_PIECE, AI_PIECE}
Cells == {EMPTY, PLAYER_PIECE, AI_PIECE}

\* range(ROWS - 1, -1, -1) and range(COLS) as the sequences the loops walk.
RowsBottomUp == [i \in 1..ROWS |-> ROWS - i]
ColsAscending == [i \in 1..COLS |-> i - 1]

\* ------------------------------------------------------------ the board
create_board == [r \in RowIdx |-> [c \in ColIdx |-> EMPTY]]

\* board[row][col] = piece on a list of lists
SetCell(board, row, col, piece) ==
    [board EXCEPT ![row] = [@ EXCEPT ![col] = piece]]

\* [row[:] for row in board]: a fresh list of fresh rows.  Values are immutable
\* here, so the copy is the board itself and a write to it (SetCell) yields a
\* new value that leaves the original as it was.
CopyBoard(board) == board

\* Variant of is_valid_location_board that looks at the bottom row of the
\* column instead of the top row.
is_valid_location_board_bottom(board, col) ==
    0 <= col /\ col < COLS /\ board[ROWS - 1][col] = EMPTY

is_valid_location_board(board, col) ==
    0 <= col /\ col < COLS /\ board[0][col] = EMPTY

RECURSIVE NextOpenRowFrom(_, _, _)
NextOpenRowFrom(board, col, i) ==
    IF i > ROWS THEN None
    ELSE IF board[RowsBottomUp[i]][col] = EMPTY THEN RowsBottomUp[i]
    ELSE NextOpenRowFrom(board, col, i + 1)

get_next_open_row_board(board, col) == NextOpenRowFrom(board, col, 1)

\* [col for col in range(COLS) if self.is_valid_location_board(board, col)]
valid_locations(board) ==
    SelectSeq(ColsAscending, LAMBDA col : is_valid_location_board(board, col))

\* ------------------------------------------------------------ win detection
\* Variant of winning_move whose negatively sloped diagonals start one row
\* too low: range(4, ROWS) instead of range(3, ROWS).
winning_move_short_diagonal(board, piece) ==
    \/ \E c \in 0..(COLS - 4) : \E r \in 0..(ROWS - 1) :
          \A i \in 0..3 : board[r][c + i] = piece
    \/ \E c \in 0..(COLS - 1) : \E r \in 0..(ROWS - 4) :
          \A i \in 0..3 : board[r + i][c] = piece
    \/ \E c \in 0..(COLS - 4) : \E r \in 0..(ROWS - 4) :
          \A i \in 0..3 : board[r + i][c + i] = piece
    \/ \E c \in 0..(COLS - 4) : \E r \in 4..(ROWS - 1) :
          \A i \in 0..3 : board[r - i][c + i] = piece

winning_move(board, piece) ==
    \/ \E c \in 0..(COLS - 4) : \E r \in 0..(ROWS - 1) :
          \A i \in 0..3 : board[r][c + i] = piece
    \/ \E c \in 0..(COLS - 1) : \E r \in 0..(ROWS - 4) :
          \A i \in 0..3 : board[r + i][c] = piece
    \/ \E c \in 0..(COLS - 4) : \E r \in 0..(ROWS - 4) :
          \A i \in 0..3 : board[r + i][c + i] = piece
    \/ \E c \in 0..(COLS - 4) : \E r \in 3..(ROWS - 1) :
          \A i \in 0..3 : board[r - i][c + i] = piece

\* Variant of is_terminal_node that leaves out the test for a board without a
\* legal column.
is_terminal_node_lines_only(board) ==
    \/ winning_move(board, PLAYER_PIECE)
    \/ winning_move(board, AI_PIECE)

is_terminal_node(board) ==
    \/ winning_move(board, PLAYER_PIECE)
    \/ winning_move(board, AI_PIECE)
    \/ Len(valid_locations(board)) = 0

\* ------------------------------------------------------------ the heuristic
\* window.count(x) for a window of four cells given as a sequence
Count(window, x) ==
    (IF window[1] = x THEN 1 ELSE 0) + (IF window[2] = x THEN 1 ELSE 0)
    + (IF window[3] = x THEN 1 ELSE 0) + (IF window[4] = x THEN 1 ELSE 0)

\* Variant of evaluate_window that gives 10 for three of the piece whatever the
\* fourth cell holds: the test "window.count(EMPTY) == 1" is left out.
evaluate_window_any_three(window, piece) ==
    LET opp_piece == IF piece = AI_PIECE THEN PLAYER_PIECE ELSE AI_PIECE
        own == Count(window, piece)
        emp == Count(window, EMPTY)
        opp == Count(window, opp_piece)
        gain == IF own = 4 THEN 100
                ELSE IF own = 3 THEN 10
                ELSE IF own = 2 /\ emp = 2 THEN 2
                ELSE 0
        loss == IF opp = 3 /\ emp = 1 THEN 80 ELSE 0
    IN  gain - loss

evaluate_window(window, piece) ==
    LET opp_piece == IF piece = AI_PIECE THEN PLAYER_PIECE ELSE AI_PIECE
        own == Count(window, piece)
        emp == Count(window, EMPTY)
        opp == Count(window, opp_piece)
        gain == IF own = 4 THEN 100
                ELSE IF own = 3 /\ emp = 1 THEN 10
                ELSE IF own = 2 /\ emp = 2 THEN 2
                ELSE 0
        loss == IF opp = 3 /\ emp = 1 THEN 80 ELSE 0
    IN  gain - loss

\* The windows of score_position in the order its loops visit them, each the
\* sequence of its four <<row, col>> cells (\o <<>> makes the table a tuple).
HorizontalWindows ==
    [k \in 1..(ROWS * (COLS - 3)) |->
        LET r == (k - 1) \div (COLS - 3)
            c == (k - 1) % (COLS - 3)
        IN  <<<<r, c>>, <<r, c + 1>>, <<r, c + 2>>, <<r, c + 3>>>>] \o <<>>

VerticalWindows ==
    [k \in 1..(COLS * (ROWS - 3)) |->
        LET c == (k - 1) \div (ROWS - 3)
            r == (k - 1) % (ROWS - 3)
        IN  <<<<r, c>>, <<r + 1, c>>, <<r + 2, c>>, <<r + 3, c>>>>] \o <<>>

PositiveDiagonalWindows ==
    [k \in 1..((ROWS - 3) * (COLS - 3)) |->
        LET r == (k - 1) \div (COLS - 3)
            c == (k - 1) % (COLS - 3)
        IN  <<<<r, c>>, <<r + 1, c + 1>>, <<r + 2, c + 2>>, <<r + 3, c + 3>>>>] \o <<>>

NegativeDiagonalWindows ==
    [k \in 1..((ROWS - 3) * (COLS - 3)) |->
        LET r == (k - 1) \div (COLS - 3)
            c == (k - 1) % (COLS - 3)
        IN  <<<<r + 3, c>>, <<r + 2, c + 1>>, <<r + 1, c + 2>>, <<r, c + 3>>>>] \o <<>>

\* score += self.evaluate_window(window, piece) over the windows k..Len(windows)
RECURSIVE ScoreWindows(_, _, _, _)
ScoreWindows(board, piece, windows, k) ==
    IF k > Len(windows) THEN 0
    ELSE LET w == windows[k]
         IN  evaluate_window(<<board[w[1][1]][w[1][2]], board[w[2][1]][w[2][2]],
                               board[w[3][1]][w[3][2]], board[w[4][1]][w[4][2]]>>, piece)
         + ScoreWindows(board, piece, windows, k + 1)

\* Variant of score_position that counts the column left of the center:
\* COLS // 2 - 1 instead of COLS // 2.
score_position_left_of_center(board, piece) ==
    LET center == (COLS \div 2) - 1
        center_count == Cardinality({r \in RowIdx : board[r][center] = piece})
    IN  center_count * 3
        + ScoreWindows(board, piece, HorizontalWindows, 1)
        + ScoreWindows(board, piece, VerticalWindows, 1)
        + ScoreWindows(board, piece, PositiveDiagonalWindows, 1)
        + ScoreWindows(board, piece, NegativeDiagonalWindows, 1)

score_position(board, piece) ==
    LET center == (COLS \div 2)
        center_count == Cardinality({r \in RowIdx : board[r][center] = piece})
    IN  center_count * 3
        + ScoreWindows(board, piece, HorizontalWindows, 1)
        + ScoreWindows(board, piece, VerticalWindows, 1)
        + ScoreWindows(board, piece, PositiveDiagonalWindows, 1)
        + ScoreWindows(board, piece, NegativeDiagonalWindows, 1)

\* ------------------------------------------------------------ scores
\* a score <<hi, lo>> is the integer hi * ScoreBase + lo: 100000000000000 is
\* <<10000000, 0>>, -10000000000000 is <<-1000000, 0>>
ScoreBase == 10000000

PosInf == <<1000000000, 0>>
\* Variant of NegInf that is zero, a value a board can have.
NegInf_zero == <<0, 0>>

NegInf == <<-1000000000, 0>>
\* Variant of WIN_SCORE within the range of the heuristic: 1000.
WIN_SCORE_small == <<0, 1000>>

WIN_SCORE == <<10000000, 0>>
LOSS_SCORE == <<-1000000, 0>>
ZeroScore == <<0, 0>>
Heuristic(n) == <<0, n>>

ScoreLt(a, b) == a[1] < b[1] \/ (a[1] = b[1] /\ a[2] < b[2])
ScoreGt(a, b) == ScoreLt(b, a)
ScoreGe(a, b) == ~ScoreLt(a, b)
ScoreMax(a, b) == IF ScoreLt(a, b) THEN b ELSE a
ScoreMin(a, b) == IF ScoreLt(b, a) THEN b ELSE a

\* ------------------------------------------------------------ minimax
\* random.choice(seq): the draw is not fixed by the program, so the model keeps
\* the set of the values it may return.  A variable assigned from it (column in
\* minimax) is the set of the values the variable may hold.
random_choice(seq) == {seq[i] : i \in 1..Len(seq)}

RECURSIVE minimax(_, _, _, _, _)
RECURSIVE MaxLoop(_, _, _, _, _, _, _, _)
RECURSIVE MinLoop(_, _, _, _, _, _, _, _)

\* Variant of MaxLoop that takes a column whose score equals the running
\* value: "new_score >= value" instead of "new_score > value".
RECURSIVE MaxLoop_ties_replace(_, _, _, _, _, _, _, _)
MaxLoop_ties_replace(board, depth, valid, i, value, column, alpha, beta) ==
    IF i > Len(valid) THEN [column |-> column, score |-> value]
    ELSE LET col == valid[i]
             row == get_next_open_row_board(board, col)
             b_copy == SetCell(CopyBoard(board), row, col, AI_PIECE)
             new_score == minimax(b_copy, depth - 1, alpha, beta, FALSE).score
             better == ScoreGe(new_score, value)
             value2 == IF better THEN new_score ELSE value
             column2 == IF better THEN {col} ELSE column
             alpha2 == ScoreMax(alpha, value2)
         IN  IF ScoreGe(alpha2, beta)
             THEN [column |-> column2, score |-> value2]
             ELSE MaxLoop_ties_replace(board, depth, valid, i + 1, value2, column2,
                                       alpha2, beta)

\* Variant of MinLoop whose cut is turned around: "beta >= alpha" instead of
\* "alpha >= beta".
RECURSIVE MinLoop_cut_reversed(_, _, _, _, _, _, _, _)
MinLoop_cut_reversed(board, depth, valid, i, value, column, alpha, beta) ==
    IF i > Len(valid) THEN [column |-> column, score |-> value]
    ELSE LET col == valid[i]
             row == get_next_open_row_board(board, col)
             b_copy == SetCell(CopyBoard(board), row, col, PLAYER_PIECE)
             new_score == minimax(b_copy, depth - 1, alpha, beta, TRUE).score
             better == ScoreLt(new_score, value)
             value2 == IF better THEN new_score ELSE value
             column2 == IF better THEN {col} ELSE column
             beta2 == ScoreMin(beta, value2)
         IN  IF ScoreGe(beta2, alpha)
             THEN [column |-> column2, score |-> value2]
             ELSE MinLoop_cut_reversed(board, depth, valid, i + 1, value2, column2,
                                       alpha, beta2)

\* "for col in valid_locations" of the maximizing player from the i-th legal
\* column on, with the running value, column, alpha of the loop
MaxLoop(board, depth, valid, i, value, column, alpha, beta) ==
    IF i > Len(valid) THEN [column |-> column, score |-> value]
    ELSE LET col == valid[i]
             row == get_next_open_row_board(board, col)
             b_copy == SetCell(CopyBoard(board), row, col, AI_PIECE)
             new_score == minimax(b_copy, depth - 1, alpha, beta, FALSE).score
             better == ScoreGt(new_score, value)
             value2 == IF better THEN new_score ELSE value
             column2 == IF better THEN {col} ELSE column
             alpha2 == ScoreMax(alpha, value2)
         IN  IF ScoreGe(alpha2, beta)
             THEN [column |-> column2, score |-> value2]
             ELSE MaxLoop(board, depth, valid, i + 1, value2, column2, alpha2, beta)

\* the same loop of the minimizing player, with the running beta
MinLoop(board, depth, valid, i, value, column, alpha, beta) ==
    IF i > Len(valid) THEN [column |-> column, score |-> value]
    ELSE LET col == valid[i]
             row == get_next_open_row_board(board, col)
             b_copy == SetCell(CopyBoard(board), row, col, PLAYER_PIECE)
             new_score == minimax(b_copy, depth - 1, alpha, beta, TRUE).score
             better == ScoreLt(new_score, value)
             value2 == IF better THEN new_score ELSE value
             column2 == IF better THEN {col} ELSE column
             beta2 == ScoreMin(beta, value2)
         IN  IF ScoreGe(alpha, beta2)
             THEN [column |-> column2, score |-> value2]
             ELSE MinLoop(board, depth, valid, i + 1, value2, column2, alpha, beta2)

\* Variant of minimax that scores a depth-0 board for the side to move:
\* the player's piece when maximizing_player is False.
minimax_side_to_move(board, depth, alpha, beta, maximizing_player) ==
    LET valid == valid_locations(board)
        is_terminal == is_terminal_node(board)
        seed == IF Len(valid) > 0 THEN random_choice(valid) ELSE {None}
        side == IF maximizing_player THEN AI_PIECE ELSE PLAYER_PIECE
    IN  IF depth = 0 \/ is_terminal
        THEN IF is_terminal
             THEN IF winning_move(board, AI_PIECE)
                  THEN [column |-> {None}, score |-> WIN_SCORE]
                  ELSE IF winning_move(board, PLAYER_PIECE)
                  THEN [column |-> {None}, score |-> LOSS_SCORE]
                  ELSE [column |-> {None}, score |-> ZeroScore]
             ELSE [column |-> {None},
                   score |-> Heuristic(score_position(board, side))]
        ELSE IF maximizing_player
        THEN MaxLoop(board, depth, valid, 1, NegInf, seed, alpha, beta)
        ELSE MinLoop(board, depth, valid, 1, PosInf, seed, alpha, beta)

\* minimax returns (column, score); column is the set of the columns the call
\* may return ({None} for no column), score the one score it returns.
minimax(board, depth, alpha, beta, maximizing_player) ==
    LET valid == valid_locations(board)
        is_terminal == is_terminal_node(board)
        seed == IF Len(valid) > 0 THEN random_choice(valid) ELSE {None}
    IN  IF depth = 0 \/ is_terminal
        THEN IF is_terminal
             THEN IF winning_move(board, AI_PIECE)
                  THEN [column |-> {None}, score |-> WIN_SCORE]
                  ELSE IF winning_move(board, PLAYER_PIECE)
                  THEN [column |-> {None}, score |-> LOSS_SCORE]
                  ELSE [column |-> {None}, score |-> ZeroScore]
             ELSE [column |-> {None},
                   score |-> Heuristic(score_position(board, AI_PIECE))]
        ELSE IF maximizing_player
        THEN MaxLoop(board, depth, valid, 1, NegInf, seed, alpha, beta)
        ELSE MinLoop(board, depth, valid, 1, PosInf, seed, alpha, beta)

\* ------------------------------------------------------------ the AI controller
\* Variant of is_valid_location that asks for an empty cell anywhere in the
\* column: "any(self.board[r][col] == EMPTY ...)" instead of the top cell.
is_valid_location_any_row(board, col) ==
    0 <= col /\ col < COLS /\ \E r \in RowIdx : board[r][col] = EMPTY

is_valid_location(board, col) ==
    0 <= col /\ col < COLS /\ board[0][col] = EMPTY

\* Variant of get_next_open_row that scans the column from the top row down:
\* range(ROWS) instead of range(ROWS - 1, -1, -1).
get_next_open_row_top_down(board, col) ==
    IF \E r \in RowIdx : board[r][col] = EMPTY
    THEN CHOOSE r \in RowIdx :
            board[r][col] = EMPTY /\ \A q \in 0..(r - 1) : board[q][col] # EMPTY
    ELSE None

get_next_open_row(board, col) == NextOpenRowFrom(board, col, 1)

is_board_full(board) == \A col \in 0..(COLS - 1) : board[0][col] # EMPTY

\* Variant of GreedyColumn that scans the columns from the last to the first:
\* range(COLS - 1, -1, -1) instead of range(COLS).
RECURSIVE GreedyColumn_descending(_, _, _)
GreedyColumn_descending(board, piece, i) ==
    IF i > COLS THEN None
    ELSE LET col == COLS - i
             row == get_next_open_row(board, col)
         IN  IF /\ is_valid_location(board, col)
                /\ row # None
                /\ winning_move(SetCell(CopyBoard(board), row, col, piece), piece)
             THEN col
             ELSE GreedyColumn_descending(board, piece, i + 1)

\* One greedy loop of get_ai_move: the first column, from the i-th of
\* range(COLS) on, that is legal and completes four-in-line for piece on a
\* copy of the board; None when the loop ends without a return.
RECURSIVE GreedyColumn(_, _, _)
GreedyColumn(board, piece, i) ==
    IF i > COLS THEN None
    ELSE LET col == ColsAscending[i]
             row == get_next_open_row(board, col)
         IN  IF /\ is_valid_location(board, col)
                /\ row # None
                /\ winning_move(SetCell(CopyBoard(board), row, col, piece), piece)
             THEN col
             ELSE GreedyColumn(board, piece, i + 1)

CenterOffsets == <<1, -1, 2, -2, 3>>

\* Variant of NearCenterColumn that tries the offsets from the last to the
\* first: [3, -2, 2, -1, 1].
RECURSIVE NearCenterColumn_far_first(_, _, _)
NearCenterColumn_far_first(board, center_col, i) ==
    IF i > Len(CenterOffsets) THEN None
    ELSE LET col == center_col + CenterOffsets[Len(CenterOffsets) + 1 - i]
         IN  IF 0 <= col /\ col < COLS /\ is_valid_location(board, col)
             THEN col
             ELSE NearCenterColumn_far_first(board, center_col, i + 1)

RECURSIVE NearCenterColumn(_, _, _)
NearCenterColumn(board, center_col, i) ==
    IF i > Len(CenterOffsets) THEN None
    ELSE LET col == center_col + CenterOffsets[i]
         IN  IF 0 <= col /\ col < COLS /\ is_valid_location(board, col)
             THEN col
             ELSE NearCenterColumn(board, center_col, i + 1)

\* Variant of get_center_column that returns the center column without asking
\* whether it is legal.
get_center_column_unchecked(board) == {COLS \div 2}

\* the set of the columns get_center_column may return
get_center_column(board) ==
    LET center_col == COLS \div 2
        near == NearCenterColumn(board, center_col, 1)
        valid_cols == SelectSeq(ColsAscending, LAMBDA col : is_valid_location(board, col))
    IN  IF is_valid_location(board, center_col) THEN {center_col}
        ELSE IF near # None THEN {near}
        ELSE IF Len(valid_cols) > 0 THEN random_choice(valid_cols)
        ELSE {0}

\* Variant of get_ai_move that looks for the block before the win.
get_ai_move_block_first(board, depth) ==
    LET win == GreedyColumn(board, AI_PIECE, 1)
        block == GreedyColumn(board, PLAYER_PIECE, 1)
    IN  IF block # None THEN {block}
        ELSE IF win # None THEN {win}
        ELSE LET found == minimax(board, depth, NegInf, PosInf, TRUE).column
             IN  UNION {IF col # None THEN {col} ELSE get_center_column(board) :
                        col \in found}

\* the set of the values get_ai_move may return on board with self.ai_depth = depth
get_ai_move(board, depth) ==
    LET win == GreedyColumn(board, AI_PIECE, 1)
        block == GreedyColumn(board, PLAYER_PIECE, 1)
    IN  IF win # None THEN {win}
        ELSE IF block # None THEN {block}
        ELSE LET found == minimax(board, depth, NegInf, PosInf, TRUE).column
             IN  UNION {IF col # None THEN {col} ELSE get_center_column(board) :
                        col \in found}

\* ------------------------------------------------------------ boards as objects
\* The search and the greedy loops once more, with the boards as the mutable
\* lists they are: objects is the sequence of the board objects made so far, a
\* board is passed as its index in it, a write changes the object in place, and
\* every function returns the objects as it leaves them.  intact records that
\* each call found the board it was given, and the copy it handed to a child,
\* unchanged when the child returned.

\* Variant of copy_board that hands out the board itself: "b_copy = board".
copy_board_alias(objects, ref) == [objects |-> objects, ref |-> ref]

\* [row[:] for row in board]: a new object with the cells of the board
copy_board(objects, ref) ==
    [objects |-> Append(objects, objects[ref]), ref |-> Len(objects) + 1]

\* b[row][col] = piece on the object ref; without a row (None) Python raises
\* and nothing is written
WriteCell(objects, ref, row, col, piece) ==
    IF row = None THEN objects
    ELSE [objects EXCEPT ![ref] = SetCell(@, row, col, piece)]

RECURSIVE minimax_refs(_, _, _, _, _, _)
RECURSIVE LoopRefs(_, _, _, _, _, _, _, _, _, _, _)

\* "for col in valid_locations" of either player from the i-th legal column on
LoopRefs(objects, ref, depth, valid, i, value, column, alpha, beta, maximizing_player, intact) ==
    IF i > Len(valid)
    THEN [column |-> column, score |-> value, objects |-> objects, intact |-> intact]
    ELSE LET col == valid[i]
             row == get_next_open_row_board(objects[ref], col)
             b_copy == copy_board(objects, ref)
             piece == IF maximizing_player THEN AI_PIECE ELSE PLAYER_PIECE
             written == WriteCell(b_copy.objects, b_copy.ref, row, col, piece)
             child == minimax_refs(written, b_copy.ref, depth - 1, alpha, beta,
                                   ~maximizing_player)
             new_score == child.score
             better == IF maximizing_player THEN ScoreGt(new_score, value)
                       ELSE ScoreLt(new_score, value)
             value2 == IF better THEN new_score ELSE value
             column2 == IF better THEN {col} ELSE column
             alpha2 == IF maximizing_player THEN ScoreMax(alpha, value2) ELSE alpha
             beta2 == IF maximizing_player THEN beta ELSE ScoreMin(beta, value2)
             intact2 == /\ intact
                        /\ child.intact
                        /\ written[ref] = objects[ref]
                        /\ child.objects[ref] = objects[ref]
                        /\ child.objects[b_copy.ref] = written[b_copy.ref]
         IN  IF ScoreGe(alpha2, beta2)
             THEN [column |-> column2, score |-> value2, objects |-> child.objects,
                   intact |-> intact2]
             ELSE LoopRefs(child.objects, ref, depth, valid, i + 1, value2, column2,
                           alpha2, beta2, maximizing_player, intact2)

minimax_refs(objects, ref, depth, alpha, beta, maximizing_player) ==
    LET board == objects[ref]
        valid == valid_locations(board)
        is_terminal == is_terminal_node(board)
        seed == IF Len(valid) > 0 THEN random_choice(valid) ELSE {None}
        leaf(score) == [column |-> {None}, score |-> score, objects |-> objects,
                        intact |-> TRUE]
    IN  IF depth = 0 \/ is_terminal
        THEN IF is_terminal
             THEN IF winning_move(board, AI_PIECE) THEN leaf(WIN_SCORE)
                  ELSE IF winning_move(board, PLAYER_PIECE) THEN leaf(LOSS_SCORE)
                  ELSE leaf(ZeroScore)
             ELSE leaf(Heuristic(score_position(board, AI_PIECE)))
        ELSE LoopRefs(objects, ref, depth, valid, 1,
                      IF maximizing_player THEN NegInf ELSE PosInf,
                      seed, alpha, beta, maximizing_player, TRUE)

\* One greedy loop of get_ai_move on self.board, the object ref: temp_board
\* is a copy, the piece is written to the copy.
RECURSIVE GreedyColumnRefs(_, _, _, _)
GreedyColumnRefs(objects, ref, piece, i) ==
    IF i > COLS THEN [column |-> None, objects |-> objects]
    ELSE LET col == ColsAscending[i]
         IN  IF ~is_valid_location(objects[ref], col)
             THEN GreedyColumnRefs(objects, ref, piece, i + 1)
             ELSE LET temp_board == copy_board(objects, ref)
                      row == get_next_open_row(objects[ref], col)
                      written == WriteCell(temp_board.objects, temp_board.ref,
                                           row, col, piece)
                  IN  IF row # None /\ winning_move(written[temp_board.ref], piece)
                      THEN [column |-> col, objects |-> written]
                      ELSE GreedyColumnRefs(written, ref, piece, i + 1)

\* get_ai_move with self.board the object ref and self.ai_depth = depth: the
\* set of the columns it may return, and the objects as it leaves them
get_ai_move_refs(objects, ref, depth) ==
    LET win == GreedyColumnRefs(objects, ref, AI_PIECE, 1)
        block == GreedyColumnRefs(win.objects, ref, PLAYER_PIECE, 1)
        found == minimax_refs(block.objects, ref, depth, NegInf, PosInf, TRUE)
    IN  IF win.column # None
        THEN [column |-> {win.column}, objects |-> win.objects, intact |-> TRUE]
        ELSE IF block.column # None
        THEN [column |-> {block.column}, objects |-> block.objects, intact |-> TRUE]
        ELSE [column |-> UNION {IF col # None THEN {col}
                                ELSE get_center_column(found.objects[ref]) :
                                col \in found.column},
              objects |-> found.objects, intact |-> found.intact]

\* ------------------------------------------------------------ the winning cells
\* The windows of get_winning_positions in the order its loops visit them:
\* the column is the outer loop, the row the inner one.
WinHorizontalWindows ==
    [k \in 1..((COLS - 3) * ROWS) |->
        LET c == (k - 1) \div ROWS
            r == (k - 1) % ROWS
        IN  <<<<r, c>>, <<r, c + 1>>, <<r, c + 2>>, <<r, c + 3>>>>] \o <<>>

WinVerticalWindows ==
    [k \in 1..(COLS * (ROWS - 3)) |->
        LET c == (k - 1) \div (ROWS - 3)
            r == (k - 1) % (ROWS - 3)
        IN  <<<<r, c>>, <<r + 1, c>>, <<r + 2, c>>, <<r + 3, c>>>>] \o <<>>

WinPositiveDiagonalWindows ==
    [k \in 1..((COLS - 3) * (ROWS - 3)) |->
        LET c == (k - 1) \div (ROWS - 3)
            r == (k - 1) % (ROWS - 3)
        IN  <<<<r, c>>, <<r + 1, c + 1>>, <<r + 2, c + 2>>, <<r + 3, c + 3>>>>] \o <<>>

WinNegativeDiagonalWindows ==
    [k \in 1..((COLS - 3) * (ROWS - 3)) |->
        LET c == (k - 1) \div (ROWS - 3)
            r == 3 + ((k - 1) % (ROWS - 3))
        IN  <<<<r, c>>, <<r - 1, c + 1>>, <<r - 2, c + 2>>, <<r - 3, c + 3>>>>] \o <<>>

\* Variant of ExtendPositions that adds a coordinate only when the list does
\* not hold it yet.
RECURSIVE ExtendPositions_once(_, _, _, _, _)
ExtendPositions_once(board, piece, windows, k, positions) ==
    IF k > Len(windows) THEN positions
    ELSE LET w == windows[k]
             held == {positions[i] : i \in 1..Len(positions)}
         IN  IF \A i \in 1..4 : board[w[i][1]][w[i][2]] = piece
             THEN ExtendPositions_once(board, piece, windows, k + 1,
                      positions \o SelectSeq(w, LAMBDA x : x \notin held))
             ELSE ExtendPositions_once(board, piece, windows, k + 1, positions)

\* one pair of loops of get_winning_positions from the k-th window on:
\* positions.extend(the four cells) for every window that holds only the piece
RECURSIVE ExtendPositions(_, _, _, _, _)
ExtendPositions(board, piece, windows, k, positions) ==
    IF k > Len(windows) THEN positions
    ELSE LET w == windows[k]
         IN  IF \A i \in 1..4 : board[w[i][1]][w[i][2]] = piece
             THEN ExtendPositions(board, piece, windows, k + 1, positions \o w)
             ELSE ExtendPositions(board, piece, windows, k + 1, positions)

get_winning_positions(board, piece) ==
    LET horizontal == ExtendPositions(board, piece, WinHorizontalWindows, 1, <<>>)
        vertical == ExtendPositions(board, piece, WinVerticalWindows, 1, horizontal)
        positive == ExtendPositions(board, piece, WinPositiveDiagonalWindows, 1, vertical)
    IN  ExtendPositions(board, piece, WinNegativeDiagonalWindows, 1, positive)

\* ------------------------------------------------------------ bounds
\* the deepest search the model runs
MaxDepth == 2
\* the deepest search the live game of the model runs
GameDepth == 1
\* the moves of one game (entries of move_history) after which no click is taken
MaxMoves == 2
\* the delayed ai_move callbacks that may be waiting at once
MaxPending == 2

\* ------------------------------------------------------------ the live game
CELL_SIZE == 50
MARGIN == 20
CANVAS_WIDTH == COLS * CELL_SIZE + 2 * MARGIN

get_column_from_x(x) ==
    IF x < MARGIN \/ x > CANVAS_WIDTH - MARGIN THEN None
    ELSE LET col == (x - MARGIN) \div CELL_SIZE
         IN  IF 0 <= col /\ col < COLS THEN col ELSE None

\* the x coordinates of the clicks the model takes: the middle of each of the
\* columns, the left margin, the right edge of the last column
ClickXsOf(columns) ==
    {MARGIN + CELL_SIZE * c + CELL_SIZE \div 2 : c \in columns}
    \cup {MARGIN - 1, CANVAS_WIDTH - MARGIN}

\* the live game is clicked on the first, the center and the last column
ClickColumns == {0, COLS \div 2, COLS - 1}
ClickXs == ClickXsOf(ClickColumns)

Difficulties == {"Easy", "Medium", "Difficult"}

\* the depth on_difficulty_change sets for a selection; the depth stays as it is
\* for any other text
DifficultyDepth(difficulty, ai_depth) ==
    IF difficulty = "Easy" THEN 3
    ELSE IF difficulty = "Medium" THEN 5
    ELSE IF difficulty = "Difficult" THEN 7
    ELSE ai_depth

\* The search of the live game runs at self.ai_depth (3, 5 or 7); the model runs
\* it no deeper than GameDepth.
SearchDepth(ai_depth) == IF ai_depth > GameDepth THEN GameDepth ELSE ai_depth

\* the cells undo_move visits: rows from the bottom, columns from the right
UndoScan ==
    [k \in 1..(ROWS * COLS) |->
        <<ROWS - 1 - ((k - 1) \div COLS), COLS - 1 - ((k - 1) % COLS)>>] \o <<>>

RECURSIVE UndoFrom(_, _, _)
UndoFrom(board, k, moves_undone) ==
    IF k > Len(UndoScan) \/ moves_undone = 2 THEN board
    ELSE LET row == UndoScan[k][1]
             col == UndoScan[k][2]
         IN  IF board[row][col] # EMPTY
             THEN UndoFrom(SetCell(board, row, col, EMPTY), k + 1, moves_undone + 1)
             ELSE UndoFrom(board, k + 1, moves_undone)

NoCall == [op |-> "none"]

\* there is no file saved_game.json
NoFile == [saved |-> FALSE]

VARIABLES
    board,            \* self.board
    current_player,   \* self.current_player
    game_over,        \* self.game_over
    ai_depth,         \* self.ai_depth
    difficulty_var,   \* self.difficulty_var, the selection shown
    stats,            \* self.stats
    move_history,     \* self.move_history
    ai_pending,       \* root.after(800, self.ai_move) callbacks not yet run
    saved_game,       \* the file saved_game.json
    paused,           \* self.paused, False while the attribute is not set
    call              \* the last application of a function and what it returned

vars == <<board, current_player, game_over, ai_depth, difficulty_var, stats,
          move_history, ai_pending, saved_game, paused, call>>

gameVars == <<current_player, game_over, ai_depth, difficulty_var, stats,
              move_history, ai_pending, saved_game, paused>>

\* Connect4GUI.__init__
InitGame ==
    /\ current_player = PLAYER_PIECE
    /\ game_over = FALSE
    /\ ai_depth = 5
    /\ difficulty_var = "Medium"
    /\ stats = [wins |-> 0, losses |-> 0, draws |-> 0]
    /\ move_history = <<>>
    /\ ai_pending = 0
    /\ saved_game = NoFile
    /\ paused = FALSE

Init ==
    /\ board = create_board
    /\ InitGame
    /\ call = NoCall

\* make_move(col) past its two early returns, but for what it returns: the
\* piece is placed, the win and the draw are checked, the AI move is scheduled
MoveMade(col) ==
    LET row == get_next_open_row(board, col)
        placed == SetCell(board, row, col, PLAYER_PIECE)
    IN  /\ is_valid_location(board, col)
        /\ row # None
        /\ board' = placed
        /\ move_history' = Append(move_history, [who |-> "Player", column |-> col + 1])
        /\ IF winning_move(placed, PLAYER_PIECE)
           THEN /\ stats' = [stats EXCEPT !.wins = @ + 1]
                /\ game_over' = TRUE
                /\ UNCHANGED <<current_player, ai_pending>>
           ELSE IF is_board_full(placed)
           THEN /\ stats' = [stats EXCEPT !.draws = @ + 1]
                /\ game_over' = TRUE
                /\ UNCHANGED <<current_player, ai_pending>>
           ELSE /\ current_player' = AI_PIECE
                /\ ai_pending' = ai_pending + 1
                /\ UNCHANGED <<stats, game_over>>
        /\ UNCHANGED <<ai_depth, difficulty_var, saved_game, paused>>

\* make_move(col) called by on_canvas_click, which drops what it returns
MakeMove(col) == MoveMade(col) /\ UNCHANGED call

\* make_move(col) as a call, the first move on the board: False from either
\* early return and nothing changed, True after the move
CallMakeMove(col) ==
    /\ call = NoCall
    /\ move_history = <<>>
    /\ IF ~is_valid_location(board, col)
       THEN /\ call' = [op |-> "make_move", col |-> col, result |-> FALSE]
            /\ UNCHANGED <<board, gameVars>>
       ELSE IF get_next_open_row(board, col) = None
       THEN /\ call' = [op |-> "make_move", col |-> col, result |-> FALSE]
            /\ UNCHANGED <<board, gameVars>>
       ELSE /\ call' = [op |-> "make_move", col |-> col, result |-> TRUE]
            /\ MoveMade(col)

\* on_canvas_click(event) with event.x = x
OnCanvasClick(x) ==
    LET col == get_column_from_x(x)
    IN  \/ /\ \/ game_over
              \/ current_player # PLAYER_PIECE
              \/ col = None
              \/ (col # None /\ ~is_valid_location(board, col))
           /\ UNCHANGED vars
        \/ /\ ~game_over
           /\ current_player = PLAYER_PIECE
           /\ col # None
           /\ MakeMove(col)

\* a click of a game that has fewer than MaxMoves moves and fewer than
\* MaxPending callbacks waiting
Click(x) ==
    /\ Len(move_history) < MaxMoves
    /\ ai_pending < MaxPending
    /\ OnCanvasClick(x)

\* Variant of ai_move that tests for a full board before it tests for a line of
\* four of the AI.
AiMove_draw_first ==
    /\ ai_pending > 0
    /\ ai_pending' = ai_pending - 1
    /\ \E col \in get_ai_move(board, SearchDepth(ai_depth)) :
          LET row == IF col # None THEN get_next_open_row(board, col) ELSE None
              placed == SetCell(board, row, col, AI_PIECE)
          IN  IF col # None /\ row # None
              THEN /\ board' = placed
                   /\ move_history' = Append(move_history, [who |-> "AI", column |-> col + 1])
                   /\ IF is_board_full(placed)
                      THEN /\ stats' = [stats EXCEPT !.draws = @ + 1]
                           /\ game_over' = TRUE
                           /\ UNCHANGED current_player
                      ELSE IF winning_move(placed, AI_PIECE)
                      THEN /\ stats' = [stats EXCEPT !.losses = @ + 1]
                           /\ game_over' = TRUE
                           /\ UNCHANGED current_player
                      ELSE /\ current_player' = PLAYER_PIECE
                           /\ UNCHANGED <<stats, game_over>>
              ELSE /\ current_player' = PLAYER_PIECE
                   /\ UNCHANGED <<board, move_history, stats, game_over>>
    /\ UNCHANGED <<ai_depth, difficulty_var, saved_game, paused, call>>

\* ai_move(), run by the event loop for one scheduled callback
AiMove ==
    /\ ai_pending > 0
    /\ ai_pending' = ai_pending - 1
    /\ \E col \in get_ai_move(board, SearchDepth(ai_depth)) :
          LET row == IF col # None THEN get_next_open_row(board, col) ELSE None
              placed == SetCell(board, row, col, AI_PIECE)
          IN  IF col # None /\ row # None
              THEN /\ board' = placed
                   /\ move_history' = Append(move_history, [who |-> "AI", column |-> col + 1])
                   /\ IF winning_move(placed, AI_PIECE)
                      THEN /\ stats' = [stats EXCEPT !.losses = @ + 1]
                           /\ game_over' = TRUE
                           /\ UNCHANGED current_player
                      ELSE IF is_board_full(placed)
                      THEN /\ stats' = [stats EXCEPT !.draws = @ + 1]
                           /\ game_over' = TRUE
                           /\ UNCHANGED current_player
                      ELSE /\ current_player' = PLAYER_PIECE
                           /\ UNCHANGED <<stats, game_over>>
              ELSE /\ current_player' = PLAYER_PIECE
                   /\ UNCHANGED <<board, move_history, stats, game_over>>
    /\ UNCHANGED <<ai_depth, difficulty_var, saved_game, paused, call>>

\* undo_move()
UndoMove ==
    IF game_over
    THEN UNCHANGED vars
    ELSE /\ board' = UndoFrom(board, 1, 0)
         /\ current_player' = PLAYER_PIECE
         /\ UNCHANGED <<game_over, ai_depth, difficulty_var, stats, move_history,
                        ai_pending, saved_game, paused, call>>

\* new_game()
NewGame ==
    /\ board' = create_board
    /\ current_player' = PLAYER_PIECE
    /\ game_over' = FALSE
    /\ move_history' = <<>>
    /\ UNCHANGED <<ai_depth, difficulty_var, stats, ai_pending, saved_game, paused,
                   call>>

\* the combobox selection followed by on_difficulty_change(event)
DifficultyChange(difficulty) ==
    /\ difficulty_var' = difficulty
    /\ ai_depth' = DifficultyDepth(difficulty, ai_depth)
    /\ UNCHANGED <<board, current_player, game_over, stats, move_history,
                   ai_pending, saved_game, paused, call>>

\* save_game(): the file holds the board, the player to move, the history and
\* the difficulty shown
SaveGame ==
    /\ saved_game' = [saved |-> TRUE, board |-> board,
                      current_player |-> current_player,
                      move_history |-> move_history, difficulty |-> difficulty_var]
    /\ UNCHANGED <<board, current_player, game_over, ai_depth, difficulty_var,
                   stats, move_history, ai_pending, paused, call>>

\* load_game() has not returned: its loop over self.move_history appends to
\* self.move_history (add_move_to_history) and so never reaches the end of a
\* list that has an entry
LoadGameLooping == [op |-> "load_game", returned |-> FALSE]

\* load_game(): without the file nothing changes; with it the board, the player
\* to move, the history and the difficulty shown are taken from the file (not
\* game_over, not ai_depth), and the history is shown again
LoadGame ==
    IF ~saved_game.saved
    THEN UNCHANGED vars
    ELSE /\ board' = saved_game.board
         /\ current_player' = saved_game.current_player
         /\ move_history' = saved_game.move_history
         /\ difficulty_var' = saved_game.difficulty
         /\ call' = IF Len(saved_game.move_history) > 0 THEN LoadGameLooping ELSE call
         /\ UNCHANGED <<game_over, ai_depth, stats, ai_pending, saved_game, paused>>

\* toggle_pause(): the first call sets self.paused, each later call inverts it
TogglePause ==
    /\ paused' = ~paused
    /\ UNCHANGED <<board, current_player, game_over, ai_depth, difficulty_var,
                   stats, move_history, ai_pending, saved_game, call>>

Next ==
    \/ \E x \in ClickXs : Click(x)
    \/ AiMove
    \/ UndoMove
    \/ NewGame

Spec == Init /\ [][Next]_vars

\* ------------------------------------------------------------ input boards
\* The boards the functions are applied to.  DrawPiece fills a board without
\* four-in-line: pairs of rows alternate, neighbouring columns differ.
DrawPiece(r, c) == IF ((r \div 2) + c) % 2 = 0 THEN PLAYER_PIECE ELSE AI_PIECE

\* the columns of full are filled to the top, the others are empty
ColumnBoard(full) ==
    [r \in RowIdx |-> [c \in ColIdx |-> IF c \in full THEN DrawPiece(r, c) ELSE EMPTY]]

ColumnBoards == {ColumnBoard(full) : full \in SUBSET ColIdx}

\* the longest line of one piece laid on an input board
MaxRun == 5

\* horizontal, vertical, descending diagonal, ascending diagonal
Directions == {<<0, 1>>, <<1, 0>>, <<1, 1>>, <<-1, 1>>}

RunCells(r, c, d, len) == {<<r + i * d[1], c + i * d[2]>> : i \in 0..(len - 1)}

InBoard(cells) == \A x \in cells : x[1] \in RowIdx /\ x[2] \in ColIdx

\* every line of len cells that lies on the board, as its set of cells
Runs(len) ==
    {cells \in {RunCells(r, c, d, len) : r \in RowIdx, c \in ColIdx, d \in Directions} :
        InBoard(cells)}

\* the lines that rest on the bottom row: along it, or up from it
BottomRuns(len) ==
    {cells \in Runs(len) :
        \/ \A x \in cells : x[1] = ROWS - 1
        \/ \E c \in ColIdx : cells = {<<ROWS - 1 - i, c>> : i \in 0..(len - 1)}}

\* The cells ai hold the AI piece, the cells pl (not in ai) the player piece;
\* with supported, every other cell below one of them holds its DrawPiece, so
\* that no piece floats; all the other cells are empty.
LineBoard(ai, pl, supported) ==
    [r \in RowIdx |-> [c \in ColIdx |->
        IF <<r, c>> \in ai THEN AI_PIECE
        ELSE IF <<r, c>> \in pl THEN PLAYER_PIECE
        ELSE IF supported /\ \E x \in ai \cup pl : x[2] = c /\ x[1] < r
        THEN DrawPiece(r, c)
        ELSE EMPTY]]

\* one line of 1..MaxRun cells of one piece, floating or supported
SingleRunBoards ==
    UNION {{LineBoard(cells, {}, sup), LineBoard({}, cells, sup)} :
           cells \in UNION {Runs(len) : len \in 1..MaxRun}, sup \in BOOLEAN}

\* a line of three of the AI and a line of three of the player on the bottom
ThreatBoards ==
    {LineBoard(a, p, TRUE) :
        a \in BottomRuns(WINDOW_LENGTH - 1), p \in BottomRuns(WINDOW_LENGTH - 1)}

BottomRunBoards ==
    UNION {{LineBoard(cells, {}, TRUE), LineBoard({}, cells, TRUE)} :
           cells \in UNION {BottomRuns(len) : len \in 1..MaxRun}}

\* one supported line of three of one piece, in any direction
ThreeRunBoards ==
    UNION {{LineBoard(cells, {}, TRUE), LineBoard({}, cells, TRUE)} :
           cells \in Runs(WINDOW_LENGTH - 1)}

\* the lines of 1..MaxRun cells along the bottom row, of either piece
BottomRowBoards ==
    UNION {{LineBoard(cells, {}, TRUE), LineBoard({}, cells, TRUE)} :
           cells \in {r \in UNION {Runs(len) : len \in 1..MaxRun} :
                          \A x \in r : x[1] = ROWS - 1}}

\* the most cells left empty on a board that is full but for top cells
MaxOpen == 3

\* the board is full but for the top cell of the columns of open
TopOpenBoard(open) ==
    [r \in RowIdx |-> [c \in ColIdx |->
        IF r = 0 /\ c \in open THEN EMPTY ELSE DrawPiece(r, c)]]

TopOpenBoards ==
    {TopOpenBoard(open) : open \in {o \in SUBSET ColIdx : Cardinality(o) <= MaxOpen}}

\* a column of four of the AI and a column of four of the player
DoubleLineBoards ==
    UNION {{LineBoard({<<ROWS - 1 - i, a>> : i \in 0..(WINDOW_LENGTH - 1)},
                      {<<ROWS - 1 - i, p>> : i \in 0..(WINDOW_LENGTH - 1)}, TRUE) :
            p \in ColIdx \ {a}} : a \in ColIdx}

SearchBoards ==
    ColumnBoards \cup BottomRowBoards \cup TopOpenBoards \cup DoubleLineBoards
\* every cell holds the same piece
UniformBoards == {[r \in RowIdx |-> [c \in ColIdx |-> piece]] : piece \in Pieces}

\* two lines of four of one piece along the two lowest rows
TwoRowBoards ==
    UNION {{LineBoard(cells, {}, TRUE), LineBoard({}, cells, TRUE)} :
           cells \in {RunCells(ROWS - 1, low, <<0, 1>>, WINDOW_LENGTH)
                        \cup RunCells(ROWS - 2, high, <<0, 1>>, WINDOW_LENGTH) :
                      low \in 0..(COLS - WINDOW_LENGTH),
                      high \in 0..(COLS - WINDOW_LENGTH)}}

FnBoards == ColumnBoards \cup SingleRunBoards \cup UniformBoards \cup TwoRowBoards
AiBoards == ColumnBoards \cup BottomRunBoards \cup ThreeRunBoards \cup ThreatBoards

\* ------------------------------------------------------------ applying the functions
\* Each Call action applies one function to the board and keeps what it
\* returned in call; Return forgets it.
Return ==
    /\ call # NoCall
    /\ call' = NoCall
    /\ UNCHANGED <<board, gameVars>>

CallWinningMove(piece) ==
    /\ call = NoCall
    /\ call' = [op |-> "winning_move", piece |-> piece,
                result |-> winning_move(board, piece)]
    /\ UNCHANGED <<board, gameVars>>

CallValidLocations ==
    /\ call = NoCall
    /\ call' = [op |-> "valid_locations", result |-> valid_locations(board)]
    /\ UNCHANGED <<board, gameVars>>

CallIsValidLocation(col) ==
    /\ call = NoCall
    /\ call' = [op |-> "is_valid_location", col |-> col,
                result |-> is_valid_location(board, col),
                result_board |-> is_valid_location_board(board, col)]
    /\ UNCHANGED <<board, gameVars>>

CallScorePosition(piece) ==
    /\ call = NoCall
    /\ call' = [op |-> "score_position", piece |-> piece,
                result |-> score_position(board, piece)]
    /\ UNCHANGED <<board, gameVars>>

CallGetWinningPositions(piece) ==
    /\ call = NoCall
    /\ call' = [op |-> "get_winning_positions", piece |-> piece,
                result |-> get_winning_positions(board, piece)]
    /\ UNCHANGED <<board, gameVars>>

\* the column indices the legality checks are asked about: one below, one above
ColumnInputs == (-1)..COLS

InitFn ==
    /\ board \in FnBoards
    /\ InitGame
    /\ call = NoCall

NextFn ==
    \/ \E piece \in Pieces : CallWinningMove(piece)
    \/ CallValidLocations
    \/ \E col \in ColumnInputs : CallIsValidLocation(col)
    \/ \E piece \in Pieces : CallScorePosition(piece)
    \/ \E piece \in Pieces : CallGetWinningPositions(piece)
    \/ Return

SpecFn == InitFn /\ [][NextFn]_vars

\* ------------------------------------------------------------ the AI's choice
\* get_ai_move on each of the AI's input boards with each search depth
CallGetAiMove(depth) ==
    /\ call = NoCall
    /\ \E col \in get_ai_move(board, depth) :
          call' = [op |-> "get_ai_move", depth |-> depth, result |-> col]
    /\ UNCHANGED <<board, gameVars>>

InitAI ==
    /\ board \in AiBoards
    /\ InitGame
    /\ call = NoCall

NextAI ==
    \/ \E depth \in 0..MaxDepth : CallGetAiMove(depth)
    \/ Return

SpecAI == InitAI /\ [][NextAI]_vars

\* ------------------------------------------------------------ the search
\* the (alpha, beta) the search is called with: the whole line, and at depth
\* 0 also a window around zero and an empty window
FullWindow == <<NegInf, PosInf>>

Windows(depth) ==
    IF depth = 0
    THEN {FullWindow, <<Heuristic(-5), Heuristic(5)>>, <<Heuristic(40), Heuristic(30)>>}
    ELSE {FullWindow}

\* minimax on each of the search's input boards
CallMinimax(depth, window, maximizing_player) ==
    /\ call = NoCall
    /\ LET found == minimax(board, depth, window[1], window[2], maximizing_player)
       IN  \E col \in found.column :
              call' = [op |-> "minimax", depth |-> depth, alpha |-> window[1],
                       beta |-> window[2], maximizing_player |-> maximizing_player,
                       column |-> col, score |-> found.score]
    /\ UNCHANGED <<board, gameVars>>

InitSearch ==
    /\ board \in SearchBoards
    /\ InitGame
    /\ call = NoCall

NextSearch ==
    \/ \E depth \in 0..MaxDepth : \E window \in Windows(depth) :
          \E maximizing_player \in BOOLEAN :
             CallMinimax(depth, window, maximizing_player)
    \/ Return

SpecSearch == InitSearch /\ [][NextSearch]_vars

\* ------------------------------------------------------------ the draws of random.choice
\* minimax(board, depth, -inf, inf, maximizing_player) under every value
\* random.choice can draw, in this call and in the calls below it: the columns
\* it can return, and the score
CallMinimaxDraws(depth, maximizing_player) ==
    /\ call = NoCall
    /\ LET found == minimax(board, depth, NegInf, PosInf, maximizing_player)
       IN  call' = [op |-> "minimax_draws", depth |-> depth,
                    maximizing_player |-> maximizing_player,
                    columns |-> found.column, score |-> found.score]
    /\ UNCHANGED <<board, gameVars>>

\* get_ai_move() searching to depth: the columns it can return
CallGetAiMoveDraws(depth) ==
    /\ call = NoCall
    /\ call' = [op |-> "get_ai_move_draws", depth |-> depth,
                columns |-> get_ai_move(board, depth)]
    /\ UNCHANGED <<board, gameVars>>

\* three of one piece at the foot of column c
ColumnOfThree(c) == {<<ROWS - 1 - i, c>> : i \in 0..(WINDOW_LENGTH - 2)}

\* a column of three of the AI and one of the player (of the AI alone where the
\* two are the same column), in the first, the center and the last column
ColumnThreatBoards ==
    {LineBoard(ColumnOfThree(a), ColumnOfThree(p), TRUE) : a \in ClickColumns, p \in ClickColumns}

\* the empty board, at most MaxOpen empty columns beside full ones, boards full
\* but for top cells, boards with a line of four of each side, boards with a
\* column of three of each side
SeedBoards ==
    {create_board}
    \cup {ColumnBoard(ColIdx \ open) : open \in {o \in SUBSET ColIdx : Cardinality(o) <= MaxOpen}}
    \cup TopOpenBoards \cup DoubleLineBoards \cup ColumnThreatBoards

InitSeed ==
    /\ board \in SeedBoards
    /\ InitGame
    /\ call = NoCall

NextSeed ==
    \/ \E depth \in 1..MaxDepth : \E maximizing_player \in BOOLEAN :
          CallMinimaxDraws(depth, maximizing_player)
    \/ \E depth \in 1..MaxDepth : CallGetAiMoveDraws(depth)
    \/ Return

SpecSeed == InitSeed /\ [][NextSeed]_vars

\* ------------------------------------------------------------ the AI on the live board
\* get_ai_move and minimax on self.board as an object: the live board after
\* the call is what the call left in that object.
CallGetAiMoveRefs(depth) ==
    /\ call = NoCall
    /\ LET done == get_ai_move_refs(<<board>>, 1, depth)
       IN  /\ board' = done.objects[1]
           /\ \E col \in done.column :
                 call' = [op |-> "get_ai_move_refs", depth |-> depth, result |-> col,
                          intact |-> done.intact, made |-> Len(done.objects) - 1]
    /\ UNCHANGED gameVars

CallMinimaxRefs(depth, maximizing_player) ==
    /\ call = NoCall
    /\ LET done == minimax_refs(<<board>>, 1, depth, NegInf, PosInf, maximizing_player)
       IN  /\ board' = done.objects[1]
           /\ \E col \in done.column :
                 call' = [op |-> "minimax_refs", depth |-> depth,
                          maximizing_player |-> maximizing_player,
                          column |-> col, score |-> done.score,
                          intact |-> done.intact, made |-> Len(done.objects) - 1]
    /\ UNCHANGED gameVars

\* a line of three of the AI in the three columns on the left, or none, and a
\* line of three of the player in the three columns on the right, or none
\* and the boards with at most three open columns
RefBoards ==
    {ColumnBoard(full) : full \in {f \in SUBSET ColIdx : Cardinality(f) > COLS \div 2}}
    \cup
    {LineBoard(a, p, TRUE) :
        a \in {{}} \cup {l \in BottomRuns(WINDOW_LENGTH - 1) :
                            \A x \in l : x[2] < COLS \div 2},
        p \in {{}} \cup {l \in BottomRuns(WINDOW_LENGTH - 1) :
                            \A x \in l : x[2] > COLS \div 2}}

InitRefs ==
    /\ board \in RefBoards
    /\ InitGame
    /\ call = NoCall

NextRefs ==
    \/ \E depth \in 0..MaxDepth : CallGetAiMoveRefs(depth)
    \/ \E depth \in 0..MaxDepth : \E maximizing_player \in BOOLEAN :
          CallMinimaxRefs(depth, maximizing_player)
    \/ Return

SpecRefs == InitRefs /\ [][NextRefs]_vars

\* ------------------------------------------------------------ the search, call by call
\* minimax as the interpreter runs it: a stack of the calls in progress, each
\* with its arguments and the locals of its loop.  The stack is kept in call;
\* the frame on top is the last one.

\* Variant of ChildDepth that passes the depth on unchanged: "depth" instead of
\* "depth - 1".
ChildDepth_unchanged(depth) == depth

\* the depth argument of the recursive call
ChildDepth(depth) == depth - 1

\* The frame of minimax(b, depth, alpha, beta, maximizing_player) on entry.
\* leaf: the call returns without a loop, and value is then the score it
\* returns and column is None; otherwise value and column are the locals of
\* the loop before its first round.
Frame(b, depth, alpha, beta, maximizing_player) ==
    LET valid == valid_locations(b)
        is_terminal == is_terminal_node(b)
    IN  [board |-> b, depth |-> depth, alpha |-> alpha, beta |-> beta,
         maximizing_player |-> maximizing_player, valid |-> valid, i |-> 1,
         leaf |-> (depth = 0 \/ is_terminal),
         value |-> IF depth = 0 \/ is_terminal
                   THEN IF is_terminal
                        THEN IF winning_move(b, AI_PIECE) THEN WIN_SCORE
                             ELSE IF winning_move(b, PLAYER_PIECE) THEN LOSS_SCORE
                             ELSE ZeroScore
                        ELSE Heuristic(score_position(b, AI_PIECE))
                   ELSE IF maximizing_player THEN NegInf ELSE PosInf,
         column |-> IF depth = 0 \/ is_terminal \/ Len(valid) = 0 THEN {None}
                    ELSE random_choice(valid)]

\* the call has nothing left to do: no loop, or the loop ended or was left
Finished(f) == f.leaf \/ f.i > Len(f.valid)

\* what the finished call returns
Returned(f) == [column |-> f.column, score |-> f.value]

\* the board handed to the recursive call of the frame f for its column f.valid[f.i]
ChildBoard(f) ==
    LET col == f.valid[f.i]
        row == get_next_open_row_board(f.board, col)
    IN  SetCell(CopyBoard(f.board), row, col,
                IF f.maximizing_player THEN AI_PIECE ELSE PLAYER_PIECE)

\* the frame f after its recursive call returned new_score: the rest of the
\* loop body; "break" leaves the loop
Resumed(f, new_score) ==
    LET col == f.valid[f.i]
        better == IF f.maximizing_player THEN ScoreGt(new_score, f.value)
                  ELSE ScoreLt(new_score, f.value)
        value2 == IF better THEN new_score ELSE f.value
        alpha2 == IF f.maximizing_player THEN ScoreMax(f.alpha, value2) ELSE f.alpha
        beta2 == IF f.maximizing_player THEN f.beta ELSE ScoreMin(f.beta, value2)
    IN  [f EXCEPT !.value = value2,
                  !.column = IF better THEN {col} ELSE @,
                  !.alpha = alpha2,
                  !.beta = beta2,
                  !.i = IF ScoreGe(alpha2, beta2) THEN Len(f.valid) + 1 ELSE @ + 1]

Running == call.op = "minimax_run" /\ ~call.done

\* minimax(self.board, depth, -inf, +inf, maximizing_player) is called
StartMinimax(depth, maximizing_player) ==
    /\ call = NoCall
    /\ call' = [op |-> "minimax_run", depth |-> depth,
                maximizing_player |-> maximizing_player,
                stack |-> <<Frame(board, depth, NegInf, PosInf, maximizing_player)>>,
                deepest |-> 0, done |-> FALSE]
    /\ UNCHANGED <<board, gameVars>>

\* the call on top makes its next recursive call
Descend ==
    /\ Running
    /\ LET f == call.stack[Len(call.stack)]
       IN  /\ ~Finished(f)
           /\ call' = [call EXCEPT
                  !.stack = Append(@, Frame(ChildBoard(f), ChildDepth(f.depth),
                                            f.alpha, f.beta, ~f.maximizing_player)),
                  !.deepest = IF Len(call.stack) > @ THEN Len(call.stack) ELSE @]
    /\ UNCHANGED <<board, gameVars>>

\* the call on top returns to the call below it
Ascend ==
    /\ Running
    /\ Len(call.stack) > 1
    /\ LET n == Len(call.stack)
           f == call.stack[n]
       IN  /\ Finished(f)
           /\ call' = [call EXCEPT
                  !.stack = Append(SubSeq(@, 1, n - 2),
                                   Resumed(call.stack[n - 1], Returned(f).score))]
    /\ UNCHANGED <<board, gameVars>>

\* the first call returns
Finish ==
    /\ Running
    /\ Len(call.stack) = 1
    /\ Finished(call.stack[1])
    /\ call' = [op |-> "minimax_run", depth |-> call.depth,
                maximizing_player |-> call.maximizing_player, stack |-> <<>>,
                deepest |-> call.deepest, done |-> TRUE,
                column |-> Returned(call.stack[1]).column,
                score |-> Returned(call.stack[1]).score]
    /\ UNCHANGED <<board, gameVars>>

\* the result is taken
Forget ==
    /\ call.op = "minimax_run"
    /\ call.done
    /\ Return

\* the sets of open columns of the boards the search is run on, step by step
RunOpenSets == {{}, {COLS \div 2}, {0, COLS - 1}, {1, COLS \div 2, COLS - 2}}

\* The boards with these columns empty and the others full, the boards full
\* but for the top cell of these columns, and a board with three open columns
\* where the AI's piece in the third makes four along the bottom row.
RunBoards ==
    {ColumnBoard(ColIdx \ open) : open \in RunOpenSets}
    \cup {TopOpenBoard(open) : open \in RunOpenSets}
    \cup {[ColumnBoard((COLS \div 2)..(COLS - 1)) EXCEPT
              ![ROWS - 1][0] = AI_PIECE, ![ROWS - 1][1] = AI_PIECE]}

InitRun ==
    /\ board \in RunBoards
    /\ InitGame
    /\ call = NoCall

NextRun ==
    \/ \E depth \in 0..MaxDepth : \E maximizing_player \in BOOLEAN :
          StartMinimax(depth, maximizing_player)
    \/ Descend
    \/ Ascend
    \/ Finish
    \/ Forget

\* the interpreter runs the computation on: no step waits for anything
SpecRun == InitRun /\ [][NextRun]_vars /\ WF_vars(NextRun)

\* ------------------------------------------------------------ one move on any board
\* The player's click on each of the input boards.
InitMove ==
    /\ board \in FnBoards
    /\ InitGame
    /\ call = NoCall

NextMove ==
    \/ \E x \in ClickXsOf(ColIdx) : Click(x)
    \/ \E col \in ColumnInputs : CallMakeMove(col)
    \/ Return

SpecMove == InitMove /\ [][NextMove]_vars

\* ------------------------------------------------------------ settings and files
\* The difficulty selections, new games, saves and loads, with the player's
\* clicks; nothing happens while a handler has not returned.
Idle == call = NoCall

NextConfig ==
    \/ \E difficulty \in Difficulties : Idle /\ DifficultyChange(difficulty)
    \/ Idle /\ NewGame
    \/ Idle /\ SaveGame
    \/ Idle /\ LoadGame
    \/ \E x \in ClickXs : Idle /\ Click(x)

SpecConfig == Init /\ [][NextConfig]_vars

\* ------------------------------------------------------------ turns and files
\* The live game with its file: the event loop takes a click, a button or a
\* due callback while no handler is running, and runs every callback that is
\* due (root.after), hence the weak fairness of the AI's move.
EventLoopAiMove == Idle /\ AiMove

\* the clicks of this game: the center column, and beside the board
TurnClickXs == ClickXsOf({COLS \div 2})

NextTurn ==
    \/ \E x \in TurnClickXs : Idle /\ Click(x)
    \/ EventLoopAiMove
    \/ Idle /\ UndoMove
    \/ Idle /\ NewGame
    \/ Idle /\ SaveGame
    \/ Idle /\ LoadGame

SpecTurn == Init /\ [][NextTurn]_vars /\ WF_vars(EventLoopAiMove)

\* ------------------------------------------------------------ the pause button
NextPause ==
    \/ \E x \in ClickXs : Click(x)
    \/ AiMove
    \/ UndoMove
    \/ NewGame
    \/ TogglePause

SpecPause == Init /\ [][NextPause]_vars

\* ------------------------------------------------------------ games in progress
\* Positions of the running program, each with the clicks that lead to it from
\* the start, difficulty Easy; "move" is a click followed by the AI's answer.

\* a board written as its rows from the top
BoardOf(rows) == [r \in RowIdx |-> [c \in ColIdx |-> rows[r + 1][c + 1]]]

\* the entries add_move_to_history has made, from <<piece, column shown>>
HistoryOf(moves) ==
    [k \in 1..Len(moves) |->
        [who |-> IF moves[k][1] = PLAYER_PIECE THEN "Player" ELSE "AI",
         column |-> moves[k][2]]]

\* Twenty moves on columns 5 4 7 7 7 6 5 4 5 7 3 6 1 2 6 6 2 1 1 3 (as shown,
\* from 1): forty pieces, no line of four, column 3 alone open, the player to
\* move.
NearlyFull ==
    [board |-> BoardOf(<<
        <<1, 2, 0, 1, 1, 2, 2>>,
        <<2, 1, 0, 2, 2, 1, 1>>,
        <<1, 2, 2, 2, 1, 1, 2>>,
        <<2, 1, 1, 2, 2, 1, 1>>,
        <<1, 2, 2, 1, 2, 2, 1>>,
        <<2, 2, 1, 2, 1, 1, 1>> >>),
     move_history |-> HistoryOf(<<
        <<1, 5>>, <<2, 4>>, <<1, 4>>, <<2, 4>>, <<1, 7>>, <<2, 5>>, <<1, 7>>, <<2, 4>>,
        <<1, 7>>, <<2, 7>>, <<1, 6>>, <<2, 5>>, <<1, 5>>, <<2, 4>>, <<1, 4>>, <<2, 5>>,
        <<1, 5>>, <<2, 1>>, <<1, 7>>, <<2, 2>>, <<1, 3>>, <<2, 6>>, <<1, 6>>, <<2, 7>>,
        <<1, 1>>, <<2, 2>>, <<1, 2>>, <<2, 2>>, <<1, 6>>, <<2, 1>>, <<1, 6>>, <<2, 6>>,
        <<1, 2>>, <<2, 2>>, <<1, 1>>, <<2, 1>>, <<1, 1>>, <<2, 3>>, <<1, 3>>, <<2, 3>> >>),
     ai_pending |-> 0]

\* Click column 7, AI answers 4; click column 5 and, before the AI answers,
\* Undo (the pieces of columns 5 and 7 go); click column 4, AI answers 3 and the
\* callback of the undone click is still waiting; click column 4, AI answers 2:
\* the AI has three in the bottom row with both ends open, the player is to
\* move, one callback waits.
OpenThree ==
    [board |-> BoardOf(<<
        <<0, 0, 0, 0, 0, 0, 0>>,
        <<0, 0, 0, 0, 0, 0, 0>>,
        <<0, 0, 0, 0, 0, 0, 0>>,
        <<0, 0, 0, 1, 0, 0, 0>>,
        <<0, 0, 0, 1, 0, 0, 0>>,
        <<0, 2, 2, 2, 0, 0, 0>> >>),
     move_history |-> HistoryOf(<<
        <<1, 7>>, <<2, 4>>, <<1, 5>>, <<1, 4>>, <<2, 3>>, <<1, 4>>, <<2, 2>> >>),
     ai_pending |-> 1]

\* Click column 4, AI answers 4: one piece of each side in the center column,
\* the player to move.
FirstAnswer ==
    [board |-> BoardOf(<<
        <<0, 0, 0, 0, 0, 0, 0>>,
        <<0, 0, 0, 0, 0, 0, 0>>,
        <<0, 0, 0, 0, 0, 0, 0>>,
        <<0, 0, 0, 0, 0, 0, 0>>,
        <<0, 0, 0, 2, 0, 0, 0>>,
        <<0, 0, 0, 1, 0, 0, 0>> >>),
     move_history |-> HistoryOf(<< <<1, 4>>, <<2, 4>> >>),
     ai_pending |-> 0]

\* Twenty moves on columns 2 4 6 4 5 5 4 6 5 7 7 3 3 5 2 3 7 6 7 7 2 2 5 6 6 4 3 4
\* 4 2 1 1 7 5 2 1 6 1 1 1 (as shown, from 1): forty pieces, no line of four,
\* column 3 alone open, its topmost cell ending a diagonal of three AI pieces,
\* the player to move.
LastCells ==
    [board |-> BoardOf(<<
        <<2, 1, 0, 1, 2, 1, 1>>,
        <<1, 2, 0, 2, 1, 1, 2>>,
        <<2, 2, 1, 2, 2, 2, 1>>,
        <<2, 1, 2, 1, 1, 2, 1>>,
        <<2, 1, 1, 2, 2, 2, 1>>,
        <<1, 1, 2, 2, 1, 1, 2>> >>),
     move_history |-> HistoryOf(<<
        <<1, 2>>, <<2, 4>>, <<1, 6>>, <<2, 4>>, <<1, 5>>, <<2, 5>>, <<1, 4>>, <<2, 6>>,
        <<1, 5>>, <<2, 7>>, <<1, 7>>, <<2, 3>>, <<1, 3>>, <<2, 5>>, <<1, 2>>, <<2, 3>>,
        <<1, 7>>, <<2, 6>>, <<1, 7>>, <<2, 7>>, <<1, 2>>, <<2, 2>>, <<1, 5>>, <<2, 6>>,
        <<1, 6>>, <<2, 4>>, <<1, 3>>, <<2, 4>>, <<1, 4>>, <<2, 2>>, <<1, 1>>, <<2, 1>>,
        <<1, 7>>, <<2, 5>>, <<1, 2>>, <<2, 1>>, <<1, 6>>, <<2, 1>>, <<1, 1>>, <<2, 1>> >>),
     ai_pending |-> 0]

GamesInProgress == {NearlyFull, LastCells, OpenThree, FirstAnswer}

\* the moves made since the position the game was taken up at (since the start
\* of the game, after new_game)
MovesPlayed ==
    LET taken == {g \in GamesInProgress :
                     /\ Len(g.move_history) <= Len(move_history)
                     /\ SubSeq(move_history, 1, Len(g.move_history)) = g.move_history}
    IN  IF taken = {} THEN Len(move_history)
        ELSE Len(move_history) - Len((CHOOSE g \in taken : TRUE).move_history)

\* the column clicked in these games: the third
LateClickColumns == {2}

\* a click while fewer than MaxMoves moves were made and fewer than MaxPending
\* callbacks wait
LateClick(x) ==
    /\ MovesPlayed < MaxMoves
    /\ ai_pending < MaxPending
    /\ OnCanvasClick(x)

InitLate ==
    /\ \E g \in GamesInProgress :
          /\ board = g.board
          /\ move_history = g.move_history
          /\ ai_pending = g.ai_pending
    /\ current_player = PLAYER_PIECE
    /\ game_over = FALSE
    /\ ai_depth = 3
    /\ difficulty_var = "Easy"
    /\ stats = [wins |-> 0, losses |-> 0, draws |-> 0]
    /\ saved_game = NoFile
    /\ paused = FALSE
    /\ call = NoCall

NextLate ==
    \/ \E x \in ClickXsOf(LateClickColumns) : LateClick(x)
    \/ AiMove
    \/ UndoMove
    \/ NewGame

SpecLate == InitLate /\ [][NextLate]_vars

\* ------------------------------------------------------------ properties
\* no occupied cell has an empty cell directly below it
Gravity(b) ==
    \A r \in 0..(ROWS - 2) : \A c \in ColIdx :
        b[r][c] # EMPTY => b[r + 1][c] # EMPTY

\* every line of WINDOW_LENGTH cells on the board
Lines == Runs(WINDOW_LENGTH)

\* the cell a piece dropped in column c of b comes to rest in
LandingRow(b, c) == CHOOSE r \in RowIdx :
    b[r][c] = EMPTY /\ \A q \in (r + 1)..(ROWS - 1) : b[q][c] # EMPTY

\* the columns with an empty top cell
OpenColumns(b) == {c \in ColIdx : b[0][c] = EMPTY}

\* some line of four cells of b holds piece in all its cells
HasLine(b, piece) == \E cells \in Lines : \A x \in cells : b[x[1]][x[2]] = piece

\* b with piece dropped in the open column c
Dropped(b, c, piece) == [b EXCEPT ![LandingRow(b, c)][c] = piece]

\* the open columns where dropping piece gives a board with four-in-line of piece
WinningColumns(b, piece) ==
    {c \in OpenColumns(b) : HasLine(Dropped(b, c, piece), piece)}

Lowest(columns) == CHOOSE c \in columns : \A d \in columns : c <= d

\* C1: on every board with a legal column, with every search depth from 0,
\* get_ai_move returns a column of 0..COLS-1 whose top cell is empty; with one
\* legal column it returns that column.
C1_AiMoveLegal ==
    (call.op = "get_ai_move" /\ OpenColumns(board) # {}) =>
        /\ call.result \in ColIdx
        /\ board[0][call.result] = EMPTY
        /\ Cardinality(OpenColumns(board)) = 1 => OpenColumns(board) = {call.result}

\* get_ai_move without search returned the one legal column of a board whose
\* center column is full
C1_Witness ==
    /\ call.op = "get_ai_move"
    /\ call.depth = 0
    /\ Cardinality(OpenColumns(board)) = 1
    /\ board[0][COLS \div 2] # EMPTY
    /\ call.result \in OpenColumns(board)

\* C2: when the AI piece dropped in some legal column gives a board with
\* four-in-line of the AI, get_ai_move returns the lowest such column, with
\* every search depth, also when the player has a winning column too.
C2_GreedyWin ==
    (call.op = "get_ai_move" /\ WinningColumns(board, AI_PIECE) # {}) =>
        call.result = Lowest(WinningColumns(board, AI_PIECE))

\* the AI, without a line yet, had two winning columns, the player a winning
\* column left of them, and get_ai_move without search took the AI's lower one
C2_Witness ==
    /\ call.op = "get_ai_move"
    /\ call.depth = 0
    /\ ~HasLine(board, AI_PIECE)
    /\ Cardinality(WinningColumns(board, AI_PIECE)) > 1
    /\ WinningColumns(board, PLAYER_PIECE) # {}
    /\ Lowest(WinningColumns(board, PLAYER_PIECE)) < Lowest(WinningColumns(board, AI_PIECE))
    /\ call.result = Lowest(WinningColumns(board, AI_PIECE))

\* C3: when no legal column wins for the AI and the player piece dropped in
\* some legal column gives a board with four-in-line of the player, get_ai_move
\* returns the lowest such column, with every search depth.
C3_GreedyBlock ==
    (/\ call.op = "get_ai_move"
     /\ WinningColumns(board, AI_PIECE) = {}
     /\ WinningColumns(board, PLAYER_PIECE) # {}) =>
        call.result = Lowest(WinningColumns(board, PLAYER_PIECE))

\* the player, without a line yet, had two winning columns, the AI none, and
\* get_ai_move with the deepest search took the player's lower one
C3_Witness ==
    /\ call.op = "get_ai_move"
    /\ call.depth = MaxDepth
    /\ ~HasLine(board, PLAYER_PIECE)
    /\ WinningColumns(board, AI_PIECE) = {}
    /\ Cardinality(WinningColumns(board, PLAYER_PIECE)) > 1
    /\ call.result = Lowest(WinningColumns(board, PLAYER_PIECE))

\* C4: in every state of the live board reached from the empty board by
\* clicks, AI moves, undo_move and new_game, no occupied cell has an empty
\* cell directly below it.
C4_GravityInvariant == Gravity(board)

\* C5: winning_move(board, piece) is true exactly when some line of four
\* consecutive cells of the board (a row, a column, either diagonal) holds the
\* piece in all four cells, whether or not the board respects gravity.
C5_WinningMoveIffLine ==
    call.op = "winning_move" =>
        (call.result <=> HasLine(board, call.piece))

\* winning_move found a line on a board with a floating piece
C5_Witness ==
    /\ call.op = "winning_move"
    /\ call.result
    /\ ~Gravity(board)

\* C6: the legal columns are exactly the columns 0..COLS-1 whose top cell is
\* empty, listed ascending, and both legality checks agree with that; an index
\* outside 0..COLS-1 is never legal.
C6_LegalColumns ==
    /\ call.op = "valid_locations" =>
          /\ \A i \in 1..(Len(call.result) - 1) : call.result[i] < call.result[i + 1]
          /\ {call.result[i] : i \in 1..Len(call.result)}
                = {c \in ColIdx : board[0][c] = EMPTY}
    /\ call.op = "is_valid_location" =>
          /\ call.result = (call.col \in ColIdx /\ board[0][call.col] = EMPTY)
          /\ call.result_board = call.result
          /\ call.col \notin ColIdx => ~call.result

\* the legal columns of a board with full columns and columns that are not
C6_Witness ==
    /\ call.op = "valid_locations"
    /\ Len(call.result) > 1
    /\ Len(call.result) < COLS
    /\ \E c \in ColIdx : board[0][c] # EMPTY /\ board[ROWS - 1][c] # EMPTY

\* C7: a move on a legal column changes exactly one cell: the empty cell with
\* the greatest row index of the column becomes the moving piece, every other
\* cell keeps its value, and clearing that cell gives the board before the move.
C7_MoveChangesOneCell ==
    [][Len(move_history') = Len(move_history) + 1 =>
        LET last == move_history'[Len(move_history')]
            col == last.column - 1
            piece == IF last.who = "Player" THEN PLAYER_PIECE ELSE AI_PIECE
        IN  /\ is_valid_location(board, col)
            /\ \E row \in RowIdx :
                  /\ board[row][col] = EMPTY
                  /\ \A r \in (row + 1)..(ROWS - 1) : board[r][col] # EMPTY
                  /\ board'[row][col] = piece
                  /\ \A r \in RowIdx : \A c \in ColIdx :
                        <<r, c>> # <<row, col>> => board'[r][c] = board[r][c]
                  /\ SetCell(board', row, col, EMPTY) = board]_vars

\* a move was made on a column that held pieces under an empty cell and an
\* empty cell under a piece: it went to the lowest empty cell
C7_Witness ==
    /\ Len(move_history) = 1
    /\ LET col == move_history[1].column - 1
       IN  /\ board[ROWS - 1][col] = PLAYER_PIECE
           /\ \E r \in 1..(ROWS - 2) : board[r][col] # EMPTY /\ board[r + 1][col] = EMPTY

\* the extreme of a set of scores
Highest(scores) == CHOOSE v \in scores : \A w \in scores : ~ScoreLt(v, w)
Least(scores) == CHOOSE v \in scores : \A w \in scores : ~ScoreLt(w, v)

\* a terminal board: a side has four-in-line, or no column is open
Terminal(b) == HasLine(b, AI_PIECE) \/ HasLine(b, PLAYER_PIECE) \/ OpenColumns(b) = {}

\* The value of b by minimax to depth without pruning: every open column is
\* tried, with the terminal values and the leaf evaluation of the search.
RECURSIVE PlainValue(_, _, _)
PlainValue(b, depth, maximizing) ==
    IF HasLine(b, AI_PIECE) THEN WIN_SCORE
    ELSE IF HasLine(b, PLAYER_PIECE) THEN LOSS_SCORE
    ELSE IF OpenColumns(b) = {} THEN ZeroScore
    ELSE IF depth = 0 THEN Heuristic(score_position(b, AI_PIECE))
    ELSE LET mover == IF maximizing THEN AI_PIECE ELSE PLAYER_PIECE
             values == {PlainValue(Dropped(b, c, mover), depth - 1, ~maximizing) :
                        c \in OpenColumns(b)}
         IN  IF maximizing THEN Highest(values) ELSE Least(values)

\* C8: the score minimax returns with the bounds (-infinity, +infinity) is the
\* value of the search to the same depth without pruning, for the maximizing
\* and for the minimizing player.
C8_PruningKeepsScore ==
    (call.op = "minimax" /\ <<call.alpha, call.beta>> = FullWindow) =>
        call.score = PlainValue(board, call.depth, call.maximizing_player)

\* a search of the deepest depth from the empty board, where cuts happen,
\* returned a heuristic score
C8_Witness ==
    /\ call.op = "minimax"
    /\ <<call.alpha, call.beta>> = FullWindow
    /\ call.depth = MaxDepth
    /\ board = create_board
    /\ call.score[1] = 0

\* C9: on a non-terminal board, with depth >= 1, the bounds (-infinity,
\* +infinity) and the maximizing player, minimax returns the lowest open
\* column among those whose board after the AI's drop has the highest value
\* without pruning.
C9_LowestBestColumn ==
    (/\ call.op = "minimax"
     /\ call.depth >= 1
     /\ call.maximizing_player
     /\ <<call.alpha, call.beta>> = FullWindow
     /\ ~Terminal(board)) =>
        LET valued == {<<c, PlainValue(Dropped(board, c, AI_PIECE), call.depth - 1, FALSE)>> :
                       c \in OpenColumns(board)}
            best == Highest({x[2] : x \in valued})
        IN  call.column = Lowest({x[1] : x \in {y \in valued : y[2] = best}})

\* several open columns had the highest value and the search returned the
\* lowest of them, which is not the lowest open column
C9_Witness ==
    /\ call.op = "minimax"
    /\ call.depth = MaxDepth
    /\ call.maximizing_player
    /\ <<call.alpha, call.beta>> = FullWindow
    /\ ~Terminal(board)
    /\ call.column # Lowest(OpenColumns(board))
    /\ \E c \in OpenColumns(board) :
          /\ c > call.column
          /\ PlainValue(Dropped(board, c, AI_PIECE), call.depth - 1, FALSE)
                = PlainValue(Dropped(board, call.column, AI_PIECE), call.depth - 1, FALSE)

\* C10: on a board where no side has four-in-line and some column is open,
\* minimax with depth 0 returns no column and the score
\* score_position(board, AI_PIECE), whatever alpha, beta and maximizing_player.
C10_DepthZeroIsEvaluate ==
    (call.op = "minimax" /\ call.depth = 0 /\ ~Terminal(board)) =>
        /\ call.column = None
        /\ call.score = Heuristic(score_position(board, AI_PIECE))

\* depth 0, the minimizing player, an empty window, a board with pieces
C10_Witness ==
    /\ call.op = "minimax"
    /\ call.depth = 0
    /\ ~call.maximizing_player
    /\ ScoreLt(call.beta, call.alpha)
    /\ ~Terminal(board)
    /\ board # create_board
    /\ call.score # ZeroScore

\* C11: is_terminal_node holds exactly on the boards where a piece has
\* four-in-line or no column is open; on such a board minimax, with every depth
\* and either maximizing_player, returns no column (so it entered no loop over
\* the columns: a loop leaves a column whenever one is open) and the positive
\* win score if the AI has four, else the negative loss score if the player
\* has four, else 0.
C11_TerminalHandling ==
    /\ is_terminal_node(board) <=> Terminal(board)
    /\ (call.op = "minimax" /\ Terminal(board)) =>
          /\ call.column = None
          /\ HasLine(board, AI_PIECE) =>
                call.score = WIN_SCORE /\ ScoreGt(call.score, ZeroScore)
          /\ (~HasLine(board, AI_PIECE) /\ HasLine(board, PLAYER_PIECE)) =>
                call.score = LOSS_SCORE /\ ScoreLt(call.score, ZeroScore)
          /\ (~HasLine(board, AI_PIECE) /\ ~HasLine(board, PLAYER_PIECE)) =>
                call.score = ZeroScore

\* the deepest search, minimizing, on a full board without a line
C11_Witness ==
    /\ call.op = "minimax"
    /\ call.depth = MaxDepth
    /\ ~call.maximizing_player
    /\ OpenColumns(board) = {}
    /\ ~HasLine(board, AI_PIECE)
    /\ ~HasLine(board, PLAYER_PIECE)
    /\ call.score = ZeroScore

\* the board with the pieces of the two sides exchanged
Exchanged(b) ==
    [r \in RowIdx |-> [c \in ColIdx |->
        IF b[r][c] = PLAYER_PIECE THEN AI_PIECE
        ELSE IF b[r][c] = AI_PIECE THEN PLAYER_PIECE
        ELSE EMPTY]]

Negated(score) == <<0 - score[1], 0 - score[2]>>

\* C12: the score minimax returns for a board where the player has
\* four-in-line is the negation of the score it returns for the board where the
\* AI has that four-in-line.
C12_TerminalScoresSymmetric ==
    (/\ call.op = "minimax"
     /\ HasLine(board, PLAYER_PIECE)
     /\ ~HasLine(board, AI_PIECE)) =>
        call.score =
            Negated(minimax(Exchanged(board), call.depth, call.alpha, call.beta,
                            call.maximizing_player).score)

\* the number of windows of four cells on the board: 24 + 21 + 12 + 12
WindowCount ==
    ROWS * (COLS - 3) + COLS * (ROWS - 3) + 2 * (ROWS - 3) * (COLS - 3)

\* C13: score_position(board, AI_PIECE) is above the loss score and below the
\* win score of the terminal boards: it is an integer of less than ScoreBase in
\* size (at most 100 for each window and 3 for each row), and as a score it
\* lies strictly between LOSS_SCORE and WIN_SCORE.
C13_HeuristicBetweenTerminalScores ==
    (call.op = "score_position" /\ call.piece = AI_PIECE) =>
        /\ call.result <= 100 * WindowCount + 3 * ROWS
        /\ call.result >= 0 - 80 * WindowCount
        /\ 100 * WindowCount + 3 * ROWS < ScoreBase
        /\ ScoreLt(LOSS_SCORE, Heuristic(call.result))
        /\ ScoreLt(Heuristic(call.result), WIN_SCORE)

\* the board full of AI pieces has the highest heuristic score there is
C13_Witness ==
    /\ call.op = "score_position"
    /\ call.piece = AI_PIECE
    /\ \A r \in RowIdx : \A c \in ColIdx : board[r][c] = AI_PIECE
    /\ call.result = 100 * WindowCount + 3 * ROWS

\* what one window of four cells adds to the score of piece
WindowValue(b, cells, piece) ==
    LET own == Cardinality({x \in cells : b[x[1]][x[2]] = piece})
        emp == Cardinality({x \in cells : b[x[1]][x[2]] = EMPTY})
        opp == WINDOW_LENGTH - own - emp
    IN  IF own = 4 THEN 100
        ELSE IF own = 3 /\ emp = 1 THEN 10
        ELSE IF own = 2 /\ emp = 2 THEN 2
        ELSE IF opp = 3 /\ emp = 1 THEN 0 - 80
        ELSE 0

RECURSIVE SumOfWindows(_, _, _)
SumOfWindows(b, lines, piece) ==
    IF lines = {} THEN 0
    ELSE LET cells == CHOOSE l \in lines : TRUE
         IN  WindowValue(b, cells, piece) + SumOfWindows(b, lines \ {cells}, piece)

\* the lines of four cells in one direction
LinesAlong(d) ==
    {cells \in {RunCells(r, c, d, WINDOW_LENGTH) : r \in RowIdx, c \in ColIdx} :
        InBoard(cells)}

\* the cells of the windows of a table of score_position
TableLines(windows) ==
    {{windows[k][i] : i \in 1..WINDOW_LENGTH} : k \in 1..Len(windows)}

\* C14: score_position(board, piece) is 3 times the number of cells of the
\* piece in column 3 plus, over the 69 windows of four cells (24 horizontal, 21
\* vertical, 12 for each diagonal direction), each taken once, 100 for four of
\* the piece, 10 for three and an empty cell, 2 for two and two empty cells,
\* -80 for three of the other piece and an empty cell, 0 otherwise.
C14_ScorePositionFormula ==
    call.op = "score_position" =>
        /\ call.result =
              3 * Cardinality({r \in RowIdx : board[r][3] = call.piece})
              + SumOfWindows(board, Lines, call.piece)
        /\ Cardinality(Lines) = 69
        /\ WindowCount = 69
        /\ Len(HorizontalWindows) = 24 /\ TableLines(HorizontalWindows) = LinesAlong(<<0, 1>>)
        /\ Len(VerticalWindows) = 21 /\ TableLines(VerticalWindows) = LinesAlong(<<1, 0>>)
        /\ Len(PositiveDiagonalWindows) = 12
        /\ TableLines(PositiveDiagonalWindows) = LinesAlong(<<1, 1>>)
        /\ Len(NegativeDiagonalWindows) = 12
        /\ TableLines(NegativeDiagonalWindows) = LinesAlong(<<-1, 1>>)

\* a board with three of the piece over one of the other piece in a column,
\* and a score that is neither 0 nor the center bonus alone
C14_Witness ==
    /\ call.op = "score_position"
    /\ \E c \in ColIdx : \E r \in 0..(ROWS - WINDOW_LENGTH) :
          /\ \A i \in 0..2 : board[r + i][c] = call.piece
          /\ board[r + 3][c] \notin {call.piece, EMPTY}
    /\ call.result > 3 * ROWS

\* the occupied cells of a board
Occupied(b) == {x \in RowIdx \X ColIdx : b[x[1]][x[2]] # EMPTY}

\* C15: on a board whose one occupied cell holds the piece,
\* score_position(board, piece) is 3 when the cell is in column 3 and 0 when
\* it is in another column.
C15_SinglePieceScore ==
    (/\ call.op = "score_position"
     /\ Cardinality(Occupied(board)) = 1
     /\ \A x \in Occupied(board) : board[x[1]][x[2]] = call.piece) =>
        call.result = IF \A x \in Occupied(board) : x[2] = 3 THEN 3 ELSE 0

\* the one piece lies in the center column, not on the bottom row
C15_Witness ==
    /\ call.op = "score_position"
    /\ Occupied(board) = {<<2, 3>>}
    /\ board[2][3] = call.piece
    /\ call.result = 3

\* the k-th group of four coordinates of a list of positions, as a set
Group(positions, k) == {positions[4 * (k - 1) + i] : i \in 1..WINDOW_LENGTH}

\* the lines of four cells that hold only piece
FullLines(b, piece) == {cells \in Lines : \A x \in cells : b[x[1]][x[2]] = piece}

\* C16: get_winning_positions returns four coordinates for each window of
\* four cells that holds only the piece, each such window once and overlapping
\* windows each in full; every coordinate holds the piece; and the list is
\* empty exactly when winning_move(board, piece) is false.
C16_WinningPositions ==
    call.op = "get_winning_positions" =>
        LET positions == call.result
            groups == Len(positions) \div WINDOW_LENGTH
        IN  /\ Len(positions) = WINDOW_LENGTH * Cardinality(FullLines(board, call.piece))
            /\ {Group(positions, k) : k \in 1..groups} = FullLines(board, call.piece)
            /\ \A k \in 1..groups : Cardinality(Group(positions, k)) = WINDOW_LENGTH
            /\ \A i \in 1..Len(positions) :
                  board[positions[i][1]][positions[i][2]] = call.piece
            /\ (positions = <<>>) <=> ~winning_move(board, call.piece)

\* five of the piece in a line: two windows, eight coordinates, five cells
C16_Witness ==
    /\ call.op = "get_winning_positions"
    /\ Len(call.result) = 8
    /\ Cardinality({call.result[i] : i \in 1..Len(call.result)}) = 5

\* the windows in the order of the claim: the horizontal ones row by row and
\* in a row by starting column, the vertical ones column by column, then the
\* descending and the ascending diagonal ones
RowMajorHorizontalWindows ==
    [k \in 1..(ROWS * (COLS - 3)) |->
        LET r == (k - 1) \div (COLS - 3)
            c == (k - 1) % (COLS - 3)
        IN  <<<<r, c>>, <<r, c + 1>>, <<r, c + 2>>, <<r, c + 3>>>>] \o <<>>

ClaimedScanOrder ==
    RowMajorHorizontalWindows \o WinVerticalWindows
    \o WinPositiveDiagonalWindows \o WinNegativeDiagonalWindows

RECURSIVE PositionsInOrder(_, _, _, _)
PositionsInOrder(b, piece, windows, k) ==
    IF k > Len(windows) THEN <<>>
    ELSE (IF \A i \in 1..WINDOW_LENGTH : b[windows[k][i][1]][windows[k][i][2]] = piece
          THEN windows[k] ELSE <<>>)
         \o PositionsInOrder(b, piece, windows, k + 1)

\* C17: get_winning_positions lists the windows in the fixed scan order: the
\* horizontal windows in row-major order, then the vertical windows in
\* column-major order, then the descending diagonals, then the ascending ones.
C17_ScanOrder ==
    call.op = "get_winning_positions" =>
        call.result = PositionsInOrder(board, call.piece, ClaimedScanOrder, 1)

\* C18: on a board without a legal column get_ai_move returns no column.
C18_FullBoardGivesNone ==
    (call.op = "get_ai_move" /\ OpenColumns(board) = {}) =>
        call.result = None

Distance(c) == IF c < COLS \div 2 THEN (COLS \div 2) - c ELSE c - (COLS \div 2)

\* C19: when no column wins for the AI or for the player, the search gives
\* no column (depth 0, or a terminal board) and some column is open,
\* get_ai_move returns column 3 if it is open and else an open column whose
\* distance from column 3 is the least among the open columns.
C19_FallbackOrder ==
    (/\ call.op = "get_ai_move"
     /\ WinningColumns(board, AI_PIECE) = {}
     /\ WinningColumns(board, PLAYER_PIECE) = {}
     /\ (call.depth = 0 \/ Terminal(board))
     /\ OpenColumns(board) # {}) =>
        /\ call.result \in OpenColumns(board)
        /\ \A c \in OpenColumns(board) : Distance(call.result) <= Distance(c)
        /\ (COLS \div 2) \in OpenColumns(board) => call.result = COLS \div 2

\* the center column and its neighbours were full, columns further out on
\* both sides were open, and the fallback took one of the nearest
C19_Witness ==
    /\ call.op = "get_ai_move"
    /\ call.depth = 0
    /\ WinningColumns(board, AI_PIECE) = {}
    /\ WinningColumns(board, PLAYER_PIECE) = {}
    /\ OpenColumns(board) = {0, 1, 5, 6}
    /\ call.result = 5

\* C20: get_ai_move and minimax leave the live board, current_player,
\* game_over and ai_depth as they were; every call of the search finds the
\* board it was given unchanged after each child, and each child got a new
\* copy that held the one simulated move when the child returned; so the
\* result is the one computed on board values, where no branch can see
\* another branch's move.
C20_NoSideEffects ==
    [][(call'.op \in {"get_ai_move_refs", "minimax_refs"}) =>
          /\ board' = board
          /\ current_player' = current_player
          /\ game_over' = game_over
          /\ ai_depth' = ai_depth
          /\ call'.intact
          /\ call'.op = "get_ai_move_refs" =>
                call'.result \in get_ai_move(board, call'.depth)
          /\ call'.op = "minimax_refs" =>
                LET value == minimax(board, call'.depth, NegInf, PosInf,
                                     call'.maximizing_player)
                IN  call'.score = value.score /\ call'.column \in value.column]_vars

\* the deepest search from the empty board made copies for its children and
\* left the live board empty
C20_Witness ==
    /\ call.op = "minimax_refs"
    /\ call.depth = MaxDepth
    /\ call.made > COLS
    /\ board = create_board

\* the empty cells of the columns a piece can be dropped in
OpenCells(b) ==
    Cardinality({x \in RowIdx \X ColIdx : b[x[1]][x[2]] = EMPTY /\ b[0][x[2]] = EMPTY})

\* C21: minimax called with depth D >= 0 returns, and while it runs the calls in
\* progress below the first one are never more than D, nor more than the empty
\* cells of the open columns of the board; it returns what minimax, computed
\* as one function, gives.
C21_SearchTerminatesWithinDepth ==
    /\ [](call.op = "minimax_run" =>
            /\ Len(call.stack) - 1 <= call.depth
            /\ Len(call.stack) - 1 <= OpenCells(board)
            /\ call.deepest <= call.depth
            /\ call.done =>
                  LET found == minimax(board, call.depth, NegInf, PosInf,
                                       call.maximizing_player)
                  IN  call.column = found.column /\ call.score = found.score)
    /\ (call.op = "minimax_run") ~> (call.op = "minimax_run" /\ call.done)

\* a search of depth MaxDepth that went MaxDepth calls deep has returned
C21_Witness ==
    /\ call.op = "minimax_run"
    /\ call.done
    /\ call.depth = MaxDepth
    /\ call.deepest = MaxDepth
    /\ OpenCells(board) > MaxDepth


\* C22: the depth of the search is the one of the difficulty shown: 3 for
\* Easy, 5 for Medium, 7 for Difficult.
C22_DepthMatchesDifficulty ==
    \/ difficulty_var = "Easy" /\ ai_depth = 3
    \/ difficulty_var = "Medium" /\ ai_depth = 5
    \/ difficulty_var = "Difficult" /\ ai_depth = 7


\* C23: make_move on a column index outside 0..COLS-1, or on a column whose top
\* cell is occupied, returns False and changes nothing: not the board, the
\* player to move, game_over, the history, the statistics or the scheduled AI
\* moves; a click on such a column changes nothing either.
C23_InvalidMoveRejected ==
    [][/\ (call'.op = "make_move" /\ call.op = "none"
              /\ call'.col \notin OpenColumns(board)) =>
            (call'.result = FALSE /\ UNCHANGED <<board, gameVars>>)
       /\ \A x \in ClickXsOf(ColIdx) :
            (Click(x) /\ get_column_from_x(x) \notin OpenColumns(board)) =>
                UNCHANGED vars]_vars

\* make_move was refused on a column of the board whose top cell is occupied
\* while its bottom cell is empty
C23_Witness ==
    /\ call.op = "make_move"
    /\ call.result = FALSE
    /\ call.col \in ColIdx
    /\ board[0][call.col] # EMPTY
    /\ board[ROWS - 1][call.col] = EMPTY
    /\ move_history = <<>>

\* the cells of b that hold no piece
EmptyCells(b) == {x \in RowIdx \X ColIdx : b[x[1]][x[2]] = EMPTY}

\* C24: in the games reached by clicks, AI moves, undo_move and new_game a draw
\* is declared only on a board whose 42 cells are all occupied and on which
\* neither side has four in line, and is_board_full holds only of a board
\* without an Empty cell.
C24_DrawOnlyOnFullBoard ==
    /\ [][stats'.draws > stats.draws =>
            /\ EmptyCells(board') = {}
            /\ ~HasLine(board', PLAYER_PIECE)
            /\ ~HasLine(board', AI_PIECE)]_vars
    /\ [](is_board_full(board) => EmptyCells(board) = {})

\* C25: on a board that is not terminal, searched to a depth of at least 1,
\* minimax returns one column and one score whatever random.choice draws, and
\* get_ai_move returns one column whenever a column is open.
C25_ResultIndependentOfSeed ==
    /\ (call.op = "minimax_draws" /\ call.depth >= 1 /\ ~Terminal(board)) =>
          /\ Cardinality(call.columns) = 1
          /\ call.columns \subseteq OpenColumns(board)
    /\ (call.op = "get_ai_move_draws" /\ OpenColumns(board) # {}) =>
          /\ Cardinality(call.columns) = 1
          /\ call.columns \subseteq OpenColumns(board)

\* the deepest search of a board with several open columns, none of which
\* changes the value zero of the board: random.choice could draw any of them
C25_Witness ==
    /\ call.op = "minimax_draws"
    /\ call.depth = MaxDepth
    /\ ~Terminal(board)
    /\ Cardinality(OpenColumns(board)) > 1
    /\ call.score = ZeroScore

\* C26: the pieces of a game are placed alternately, the player's first: in the
\* moves made since new_game every odd one is the player's and every even one
\* the AI's, so the AI places neither the first piece nor two in a row.
C26_StrictAlternation ==
    \A k \in 1..Len(move_history) :
        move_history[k].who = IF k % 2 = 1 THEN "Player" ELSE "AI"

\* C27: once game_over is true, no cell of the board changes in any step other
\* than new_game.
C27_BoardFrozenAfterGameOver ==
    [][(game_over /\ ~NewGame) => board' = board]_vars

\* the games counted
Total(s) == s.wins + s.losses + s.draws

\* C28: between two new_game calls wins + losses + draws grows by at most 1: a
\* step adds at most 1, the step that adds it ends the game, and until new_game
\* no step of the ended game adds to the sum again.
C28_GameCountedOnce ==
    [][/\ Total(stats') <= Total(stats) + 1
       /\ Total(stats') > Total(stats) => game_over'
       /\ (game_over /\ ~NewGame) => Total(stats') = Total(stats)]_vars

\* the cells of b that hold piece
CellsOf(b, piece) == {x \in RowIdx \X ColIdx : b[x[1]][x[2]] = piece}

\* C29: on the board of the live game the player has as many pieces as the AI,
\* or one more.
C29_PieceBalance ==
    Cardinality(CellsOf(board, PLAYER_PIECE)) - Cardinality(CellsOf(board, AI_PIECE)) \in {0, 1}

\* the row of the highest piece of column c, None in an empty column
TopRow(b, c) ==
    IF \A r \in RowIdx : b[r][c] = EMPTY THEN None
    ELSE CHOOSE r \in RowIdx : b[r][c] # EMPTY /\ \A q \in 0..(r - 1) : b[q][c] = EMPTY

\* b without the highest piece of column c
WithoutTop(b, c) == SetCell(b, TopRow(b, c), c, EMPTY)

\* the last two moves were the player's and then the AI's, and their pieces lie
\* on top of their columns
LastTwoOnTop ==
    LET n == Len(move_history)
        pc == move_history[n - 1].column - 1
        ac == move_history[n].column - 1
    IN  /\ n >= 2
        /\ move_history[n - 1].who = "Player"
        /\ move_history[n].who = "AI"
        /\ TopRow(board, ac) # None
        /\ board[TopRow(board, ac)][ac] = AI_PIECE
        /\ TopRow(WithoutTop(board, ac), pc) # None
        /\ WithoutTop(board, ac)[TopRow(WithoutTop(board, ac), pc)][pc] = PLAYER_PIECE

\* the board before the last two moves
BeforeLastTwo ==
    LET n == Len(move_history)
        pc == move_history[n - 1].column - 1
        ac == move_history[n].column - 1
    IN  WithoutTop(WithoutTop(board, ac), pc)

\* C30: while the game is not over and the last two moves were the player's
\* and the AI's answer, undo_move clears the cells of exactly those two moves,
\* which restores the board from before the player's move, and gives the turn
\* to the player.
C30_UndoRemovesLastTwoMoves ==
    [][(~game_over /\ LastTwoOnTop /\ UndoMove) =>
          /\ board' = BeforeLastTwo
          /\ current_player' = PLAYER_PIECE]_vars

\* C31: whenever it is the AI's turn in a game that is not over, a callback of
\* ai_move is waiting and the event loop is free to run it, which gives the
\* turn back to the player or ends the game.
C31_AiTurnNeverHangs ==
    (current_player = AI_PIECE /\ ~game_over) => (Idle /\ ai_pending > 0)

\* the step places a piece of the side that had no four in line before it and
\* has one after it
Completes(piece) ==
    /\ CellsOf(board, piece) \subseteq CellsOf(board', piece)
    /\ CellsOf(board', piece) # CellsOf(board, piece)
    /\ ~HasLine(board, piece)
    /\ HasLine(board', piece)

C33_NoMoveWhilePaused ==
    [][paused => Occupied(board') \subseteq Occupied(board)]_vars

============================================================================
